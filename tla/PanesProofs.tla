----------------------------- MODULE PanesProofs ------------------------------
(***************************************************************************)
(* Theorems about Panes, for every size of the screen, of the pane and of  *)
(* the command history, and for every stride: the invariants that          *)
(* MCPanes checks on a small screen.                                       *)
(***************************************************************************)
EXTENDS Panes, SequenceTheorems, TLAPS

\* What is drawn is within the pane and fills the screen, for every offset.
LEMMA Window ==
  ASSUME NEW t \in Nat, NEW v \in Nat, NEW o \in Nat
  PROVE  /\ StartAt(t, v, o) \in Nat /\ EndAt(t, v, o) \in Nat
         /\ StartAt(t, v, o) <= EndAt(t, v, o) /\ EndAt(t, v, o) <= t
         /\ EndAt(t, v, o) - StartAt(t, v, o) = Least(t, v)
BY DEF StartAt, EndAt, Least, Minus

LEMMA VisibleIsNat == TypeOK => Visible \in Nat
<1> SUFFICES ASSUME TypeOK PROVE Visible \in Nat
  OBVIOUS
<1>1. CASE pane \in FromBottom
  BY <1>1 DEF Visible, TypeOK, FromBottom
<1>2. CASE pane = "net"
  BY <1>2 DEF Visible, TypeOK, FromBottom, Least
<1>3. CASE pane \notin FromBottom /\ pane # "net"
  BY <1>3 DEF Visible, TypeOK, FromBottom
<1> QED
  BY <1>1, <1>2, <1>3

LEMMA RememberIsHistory ==
  ASSUME history \in Seq(Text), NEW cmd \in Text
  PROVE  Remember(cmd) \in Seq(Text)
<1>1. Append(history, cmd) \in Seq(Text) /\ Append(history, cmd) # <<>>
  BY AppendProperties
<1>2. Tail(Append(history, cmd)) \in Seq(Text)
  BY <1>1
<1> QED
  BY <1>1, <1>2 DEF Remember

-------------------------------------------------------------------------------
\* The inductive invariant: the properties, and that an offset from the bottom
\* is within the pane.
IInv ==
  /\ TypeOK
  /\ Browsing
  /\ pane \in FromBottom => offset <= total

LEMMA IInvInit == Init => IInv
<1> SUFFICES ASSUME Init PROVE IInv
  OBVIOUS
<1>1. <<>> \in Text /\ <<>> \in Seq(Text)
  BY DEF Text
<1>2. room \in Nat /\ total \in Nat
  BY PanesAssumption DEF Init
<1>3. TypeOK
  BY <1>1, <1>2 DEF Init, TypeOK
<1>4. Browsing
  BY DEF Init, Browsing
<1>5. offset <= total
  BY <1>2 DEF Init
<1> QED
  BY <1>3, <1>4, <1>5 DEF IInv

LEMMA ScrollStep ==
  ASSUME IInv, NEW n \in Strides, ScrollUp(n) \/ ScrollDown(n)
  PROVE  IInv'
BY PanesAssumption DEF IInv, TypeOK, Browsing, ScrollUp, ScrollDown, Least, Minus, line

LEMMA LineStep ==
  ASSUME IInv,
         \/ Focus \/ \E c \in Chars : TypeChar(c)
         \/ Backspace \/ HistoryPrev \/ HistoryNext
  PROVE  IInv'
<1> USE PanesAssumption DEF IInv, TypeOK, Browsing, Text, scroll
<1>1. CASE Focus
  BY <1>1 DEF Focus
<1>2. CASE \E c \in Chars : TypeChar(c)
  BY <1>2 DEF TypeChar
<1>3. CASE Backspace
  <2>1. input # <<>> => SubSeq(input, 1, Len(input) - 1) \in Seq(Chars)
    BY SubSeqProperties
  <2> QED
    BY <1>3, <2>1 DEF Backspace
<1>4. CASE HistoryPrev
  <2>1. idx' \in DOMAIN history /\ history' = history /\ typed' = typed
    BY <1>4 DEF HistoryPrev
  <2>2. input' = history[idx'] /\ input' \in Seq(Chars)
    BY <1>4, <2>1 DEF HistoryPrev
  <2>3. idx' # None
    BY <2>1
  <2>4. draft' = typed /\ draft' \in Seq(Chars)
    BY <1>4 DEF HistoryPrev
  <2>5. UNCHANGED <<pane, total, room, offset, focused>>
    BY <1>4 DEF HistoryPrev
  <2> QED
    BY <2>1, <2>2, <2>3, <2>4, <2>5
<1>5. CASE HistoryNext
  <2>1. idx \in 1..Len(history) /\ (idx < Len(history) => idx + 1 \in DOMAIN history)
    <3>1. history \in Seq(Text) /\ idx \in DOMAIN history
      BY <1>5 DEF HistoryNext
    <3>2. \A h \in Seq(Text) : DOMAIN h = 1..Len(h) /\ Len(h) \in Nat
      OBVIOUS
    <3>3. DOMAIN history = 1..Len(history) /\ Len(history) \in Nat
      BY <3>1, <3>2
    <3> HIDE DEF TypeOK, IInv, Browsing
    <3> QED
      BY <3>1, <3>3
  <2>2. CASE idx >= Len(history)
    BY <1>5, <2>1, <2>2 DEF HistoryNext
  <2>3. CASE idx < Len(history)
    <3>1. idx' = idx + 1 /\ input' = history[idx + 1] /\ idx' \in DOMAIN history
      BY <1>5, <2>1, <2>3 DEF HistoryNext
    <3> QED
      BY <1>5, <3>1 DEF HistoryNext
  <2> QED
    BY <2>1, <2>2, <2>3
<1> QED
  BY <1>1, <1>2, <1>3, <1>4, <1>5

LEMMA EnterStep == IInv /\ Enter => IInv'
<1> SUFFICES ASSUME IInv, Enter PROVE IInv'
  OBVIOUS
<1>1. history' \in Seq(Text)
  BY RememberIsHistory DEF IInv, TypeOK, Enter
<1>2. total' \in Nat
  BY PanesAssumption DEF IInv, TypeOK, Enter
<1> QED
  BY <1>1, <1>2, PanesAssumption DEF IInv, TypeOK, Browsing, Enter, Text

LEMMA IInvStep == IInv /\ [Next]_vars => IInv'
<1> SUFFICES ASSUME IInv, [Next]_vars PROVE IInv'
  OBVIOUS
<1>1. CASE \E n \in Strides : ScrollUp(n) \/ ScrollDown(n)
  BY <1>1, ScrollStep
<1>2. CASE Home \/ End
  BY <1>2, PanesAssumption DEF IInv, TypeOK, Browsing, Home, End, line
<1>3. CASE Grow \/ Snapshot \/ Resize
  BY <1>3, PanesAssumption
     DEF IInv, TypeOK, Browsing, Grow, Snapshot, Resize, line, FromBottom
<1>4. CASE Enter
  BY <1>4, EnterStep
<1>5. CASE \/ Focus \/ \E c \in Chars : TypeChar(c)
           \/ Backspace \/ HistoryPrev \/ HistoryNext
  BY <1>5, LineStep
<1>6. CASE UNCHANGED vars
  BY <1>6 DEF IInv, TypeOK, Browsing, vars, scroll, line
<1> QED
  BY <1>1, <1>2, <1>3, <1>4, <1>5, <1>6 DEF Next

-------------------------------------------------------------------------------

\* Every variable keeps its type: no offset becomes negative, and the index into
\* the history stays in it.
THEOREM PanesTypes == Spec => []TypeOK
<1>1. IInv => TypeOK
  BY DEF IInv
<1> QED
  BY <1>1, IInvInit, IInvStep, PTL DEF Spec

\* What is drawn is a part of the pane and fills the screen.
THEOREM AlwaysFull == Spec => []WindowFull
<1>1. TypeOK => WindowFull
  <2> SUFFICES ASSUME TypeOK PROVE WindowFull
    OBVIOUS
  <2>1. total \in Nat /\ Visible \in Nat /\ offset \in Nat
    BY VisibleIsNat DEF TypeOK
  <2> QED
    BY <2>1, Window DEF WindowFull
<1> QED
  BY <1>1, PanesTypes, PTL

\* What had been typed comes back after browsing in the history.
THEOREM BrowsingKept == Spec => []Browsing
<1>1. IInv => Browsing
  BY DEF IInv
<1> QED
  BY <1>1, IInvInit, IInvStep, PTL DEF Spec

\* At most a screenful of presses is lost at the top.
THEOREM FewLost == Spec => []FewLostPresses
<1>1. IInv => FewLostPresses
  BY DEF IInv, TypeOK, FewLostPresses, Minus
<1> QED
  BY <1>1, IInvInit, IInvStep, PTL DEF Spec
===============================================================================
