--------------------------------- MODULE Panes --------------------------------
(***************************************************************************)
(* The panes that scroll and the command line: the scroll helpers and the  *)
(* keys of three tabs (main.rs), the part of a pane that is drawn          *)
(* (tabs/logs.rs, tabs/terminal.rs, tabs/monitor.rs), and the input line   *)
(* with its history (app.rs).  The panes share nothing, so a behaviour is  *)
(* about one, the variable pane; the command line belongs to the terminal. *)
(*                                                                         *)
(* The offset of the logs and of the terminal counts lines from the        *)
(* bottom, that of a monitor pane items from the top.  What a command      *)
(* does is left out, but for "clear" and for the lines it prints.          *)
(***************************************************************************)
EXTENDS Integers, Sequences

CONSTANTS
  Chars,       \* characters to type
  ClearText,   \* the command "clear"
  Greeting,    \* lines the terminal, or the logs, begin with: 5, or a few
  MaxText,     \* bound on the length of the input
  MaxTotal,    \* bound on the lines or items of the pane
  MaxVisible,  \* bound on the lines or items that fit the screen
  Strides,     \* what a key or the wheel scrolls by: 1, 3 and 10
  Far,         \* where Home leaves a monitor pane: 999
  HistoryCap,  \* commands remembered: 500
  None         \* no index

Panels == {"terminal", "logs", "cpu", "net", "disk"}
FromBottom == {"terminal", "logs"}
Text == Seq(Chars)

ASSUME PanesAssumption ==
  /\ ClearText \in Text /\ ClearText # <<>>
  /\ {MaxText, MaxTotal, MaxVisible, Far} \subseteq Nat
  /\ Greeting \in Nat
  /\ Strides \subseteq Nat \ {0} /\ 1 \in Strides
  /\ HistoryCap \in Nat \ {0}
  /\ None \notin Nat

VARIABLES
  pane,     \* which pane this is about
  total,    \* lines or items there are
  room,     \* lines or items that fit, as the window was resized last
  offset,   \* log_scroll, terminal_scroll, monitor_*_scroll
  focused,  \* terminal_focused
  input,    \* terminal_input
  history,  \* cmd_history
  idx,      \* cmd_history_idx, from 1, or None
  draft,    \* cmd_draft
  typed     \* history: the input as the user typed it last

scroll == <<pane, total, room, offset>>
line == <<focused, input, history, idx, draft, typed>>
vars == <<scroll, line>>

TypeOK ==
  /\ pane \in Panels /\ total \in Nat /\ room \in Nat /\ offset \in Nat
  /\ focused \in BOOLEAN
  /\ input \in Text /\ draft \in Text /\ typed \in Text
  /\ history \in Seq(Text)
  /\ idx = None \/ idx \in DOMAIN history

-------------------------------------------------------------------------------
\* What is drawn

Least(a, b) == IF a < b THEN a ELSE b
MinusPlain(a, b) == a - b  \* mutant: the subtraction does not saturate
Minus(a, b) == IF a < b THEN 0 ELSE a - b  \* saturating_sub

\* A monitor pane has room for one, the network's for no more than there are.
Visible ==
  CASE pane \in FromBottom -> room
    [] pane = "net" -> Least(IF room = 0 THEN 1 ELSE room, total)
    [] OTHER -> IF room = 0 THEN 1 ELSE room

\* The first line drawn, from 0, and the one after the last.
StartAt(t, v, o) ==
  LET shift == Least(o, Minus(t, v))
  IN IF pane \in FromBottom THEN Minus(Minus(t, v), shift) ELSE shift
EndUnclipped(t, v, o) == StartAt(t, v, o) + v  \* mutant: a pane that is not full
EndAt(t, v, o) == Least(StartAt(t, v, o) + v, t)

-------------------------------------------------------------------------------
\* Scrolling

\* Keys that reach the pane while the command line has the focus, too.
Strided(n) == n # 1 \/ ~focused

ScrollUp(n) ==
  /\ Strided(n)
  /\ offset' = Least(offset + n, total)
  /\ UNCHANGED <<pane, total, room, line>>

ScrollDown(n) ==
  /\ Strided(n)
  /\ offset' = Minus(offset, n)
  /\ UNCHANGED <<pane, total, room, line>>

Home ==
  /\ ~focused
  /\ offset' = IF pane \in FromBottom THEN total ELSE Far
  /\ UNCHANGED <<pane, total, room, line>>

End ==
  /\ ~focused
  /\ offset' = 0
  /\ UNCHANGED <<pane, total, room, line>>

\* App::log.
Grow ==
  /\ pane = "logs"
  /\ total < MaxTotal /\ total' = total + 1
  /\ UNCHANGED <<pane, room, offset, line>>

\* A snapshot with other interfaces, cores or disks, or none: refresh_verify.
Snapshot ==
  /\ pane \notin FromBottom
  /\ total' \in 0..MaxTotal
  /\ UNCHANGED <<pane, room, offset, line>>

Resize ==
  /\ room' \in 0..MaxVisible
  /\ UNCHANGED <<pane, total, offset, line>>

-------------------------------------------------------------------------------
\* The command line

Focus ==
  /\ pane = "terminal"
  /\ focused' = ~focused
  /\ UNCHANGED <<scroll, input, history, idx, draft, typed>>

TypeCharOnly(c) ==  \* mutant: the index into the history is kept
  /\ focused /\ Len(input) < MaxText
  /\ input' = Append(input, c) /\ typed' = input'
  /\ UNCHANGED <<scroll, focused, history, draft, idx>>

TypeChar(c) ==
  /\ focused /\ Len(input) < MaxText
  /\ input' = Append(input, c) /\ typed' = input'
  /\ idx' = None
  /\ UNCHANGED <<scroll, focused, history, draft>>

Backspace ==
  /\ focused
  /\ input' = IF input = <<>> THEN <<>> ELSE SubSeq(input, 1, Len(input) - 1)
  /\ typed' = input'
  /\ idx' = None
  /\ UNCHANGED <<scroll, focused, history, draft>>

\* history_prev.
HistoryPrev ==
  /\ focused /\ history # <<>>
  /\ idx' = CASE idx = None -> Len(history)
              [] idx = 1 -> 1
              [] OTHER -> idx - 1
  /\ draft' = IF idx = None THEN input ELSE draft
  /\ input' = history[idx']
  /\ UNCHANGED <<scroll, focused, history, typed>>

\* history_next.
HistoryNext ==
  /\ focused /\ idx # None
  /\ IF idx >= Len(history)
       THEN idx' = None /\ input' = draft
       ELSE idx' = idx + 1 /\ input' = history[idx + 1]
  /\ UNCHANGED <<scroll, focused, history, draft, typed>>

\* A command is remembered unless it was the last one; the oldest goes.
Remember(cmd) ==
  IF history # <<>> /\ history[Len(history)] = cmd THEN history
  ELSE LET h == Append(history, cmd)
       IN IF Len(h) > HistoryCap THEN Tail(h) ELSE h

EnterUnscrolled ==  \* mutant: the pane is left scrolled
  /\ focused
  /\ input' = <<>> /\ typed' = <<>> /\ idx' = None /\ draft' = <<>>
  /\ history' = IF input = <<>> THEN history ELSE Remember(input)
  /\ CASE input = <<>> -> UNCHANGED total
       [] input = ClearText -> total' = 0
       [] OTHER -> total < MaxTotal /\ total' \in total + 1..MaxTotal
  /\ UNCHANGED <<pane, room, offset, focused>>

\* Enter: exec_terminal_command, with the pane back at the bottom.
Enter ==
  /\ focused
  /\ offset' = 0
  /\ input' = <<>> /\ typed' = <<>> /\ idx' = None /\ draft' = <<>>
  /\ history' = IF input = <<>> THEN history ELSE Remember(input)
  /\ CASE input = <<>> -> UNCHANGED total
       [] input = ClearText -> total' = 0
       [] OTHER -> total < MaxTotal /\ total' \in total + 1..MaxTotal
  /\ UNCHANGED <<pane, room, focused>>

-------------------------------------------------------------------------------

Init ==
  /\ pane \in Panels
  /\ total = IF pane \in FromBottom THEN Greeting ELSE 0
  /\ room \in 0..MaxVisible /\ offset = 0
  /\ focused = FALSE
  /\ input = <<>> /\ draft = <<>> /\ typed = <<>>
  /\ history = <<>> /\ idx = None

Next ==
  \/ \E n \in Strides : ScrollUp(n) \/ ScrollDown(n)
  \/ Home \/ End \/ Grow \/ Snapshot \/ Resize
  \/ Focus \/ \E c \in Chars : TypeChar(c)
  \/ Backspace \/ HistoryPrev \/ HistoryNext \/ Enter

Spec == Init /\ [][Next]_vars

-------------------------------------------------------------------------------
\* Properties

\* The part drawn is within the pane, so that [start..end] does not panic, and it
\* fills the screen as far as there are lines (tabs/logs.rs:38-44), whatever was
\* scrolled, added, cleared or resized since the last frame.
WindowFull ==
  LET start == StartAt(total, Visible, offset)
      end == EndAt(total, Visible, offset)
  IN 0 <= start /\ start <= end /\ end <= total /\ end - start = Least(total, Visible)

\* While the user goes through the history the line is the command the index
\* names, and what had been typed is kept: going down past the newest command
\* brings it back (app.rs:540-561).
Browsing ==
  IF idx = None
    THEN input = typed
    ELSE /\ idx \in DOMAIN history /\ input = history[idx]
         /\ draft = typed

\* At the top of the logs or the terminal at most a screenful of key presses down
\* are lost: the offset is clamped to the lines there are, not to the last one
\* that can be scrolled to (main.rs:137).  "clear" relies on Enter for that.
FewLostPresses ==
  pane \in FromBottom => offset - Minus(total, room) <= room
===============================================================================
