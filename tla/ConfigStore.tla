------------------------------ MODULE ConfigStore -----------------------------
(***************************************************************************)
(* The config store (snapshot_store.rs) and its users: the Setup form that *)
(* fills a configuration (tabs/setup.rs), Apply, which puts away the state *)
(* it finds and the configuration it applies, the picker and the restore   *)
(* (app.rs), the daemon, which sets up the active configuration again      *)
(* (service.rs), and what the library is given (ffi.rs).                   *)
(*                                                                         *)
(* A configuration has one field for each kind of value the JSON code      *)
(* tells apart; the others are written, read and edited like one of these. *)
(* A text is its sequence of lines.  What the library does to the machine  *)
(* is the subject of Grub and Host: here it leaves some state and asks for *)
(* a reboot or not.                                                        *)
(*                                                                         *)
(* The variable world names what may happen in a behaviour:                *)
(*   "odd"    values are typed whose text is not read back as it was       *)
(*   "quick"  an Apply begins in a second that has a file of another one   *)
(*   "slow"   a second ends while an Apply saves its two files             *)
(*   "back"   the local time goes back                                     *)
(*   "full"   the disk is full, and a write leaves a part of the text      *)
(*   "crash"  the TUI dies at any point, and is started again              *)
(***************************************************************************)
EXTENDS Integers, Sequences, FiniteSets, SequencesExt

CONSTANTS
  Default,    \* SetupConfig::default()
  Typed,      \* Typed[k]: what a user types into field k, for an odd user too
  Lives,      \* states of the machine, as far as they are captured
  MaxEdits,   \* bound on the edits of the form
  MaxSecond,  \* bound on the local time
  MaxFaults,  \* bound on the writes that fail and the deaths of the TUI
  Worlds,     \* the worlds explored
  None,       \* no file, no value, a null pointer
  Junk,       \* a text that is no number, a line cut before its value can be read
  Infinite,   \* the loss "inf", which parses but is not read back from JSON
  Words,      \* what a name is made of, apart from quotes
  Quote       \* the character " within a name

Keys == <<"isolated_cores", "ns_server", "netem_loss_pct", "rt_priority",
          "apply_nohz_full">>
Fields == {Keys[i] : i \in 1..Len(Keys)}
Numbers == {"netem_loss_pct", "rt_priority"}
Toggles == {"apply_nohz_full"}

\* Cores are numbers, a name is a sequence of words, a loss thousandths of a percent.
Configs == [isolated_cores : Seq(Nat), ns_server : Seq(Words \cup {Quote}),
            netem_loss_pct : Nat \cup {Infinite}, rt_priority : Nat,
            apply_nohz_full : BOOLEAN]

\* The C structure: what is empty is a null pointer.
CStructures == [isolated_cores : Seq(Nat) \cup {None},
                ns_server : Seq(Words \cup {Quote}) \cup {None},
                netem_loss_pct : Nat \cup {Infinite}, rt_priority : Nat,
                apply_nohz_full : BOOLEAN]

\* The lines of a file: each has a value and, unless the text was cut within it,
\* its end.
Lines == [raw : Nat \cup {Infinite} \cup Seq(Nat) \cup Seq(Words \cup {Quote}) \cup BOOLEAN,
          ended : BOOLEAN]

ASSUME StoreAssumption ==
  /\ Default \in Configs
  /\ MaxEdits \in Nat /\ MaxSecond \in Nat /\ MaxFaults \in Nat
  /\ Worlds \subseteq SUBSET {"odd", "quick", "slow", "back", "full", "crash"}

\* The default is written with a loss and a name that read back as they are.
ASSUME DefaultAssumption ==
  Default.netem_loss_pct \in Nat /\ Quote \notin ToSet(Default.ns_server)

\* What is typed into a field is of the field's kind, or a text that does not parse.
ASSUME TypedAssumption ==
  Typed \in [isolated_cores : SUBSET Seq(Nat \cup {Junk}),
             ns_server : SUBSET Seq(Words \cup {Quote}),
             netem_loss_pct : SUBSET (Nat \cup {Infinite, Junk}),
             rt_priority : SUBSET (Nat \cup {Junk})]

ASSUME LivesAssumption ==
  Lives \subseteq [isolcpus : Seq(Nat \cup {Junk}) \cup {None},
                 nohz_full : BOOLEAN, netns : BOOLEAN]

\* The values that stand for something else are values of no other kind.
ASSUME MarksAssumption ==
  /\ Infinite \notin Nat \cup {Junk} /\ Junk \notin Nat
  /\ "ns_server" \in Words /\ Quote \notin Words
  /\ None \notin Configs \cup CStructures \cup Seq(Nat) \cup Seq(Words \cup {Quote})
  /\ None \notin [Fields -> Lines]

VARIABLES
  world,     \* what may happen, see above
  faults,    \* writes that failed and deaths of the TUI, up to MaxFaults
  live,      \* the state of the machine
  form,      \* setup_config
  edits,     \* edits that changed it, up to MaxEdits
  clock,     \* the local time, in seconds
  files,     \* snapshots/<second>/<label>.json
  active,    \* active_config.json
  at,        \* how far an Apply has come
  picker,    \* teardown_snapshots while the picker is open
  chosen,    \* what run_teardown_inner is to restore
  handed,    \* what the last step gave the library, as the C structure, or None
  before     \* history: what the last Apply captured, None if that is gone

store == <<files, active>>
user == <<form, edits>>
tui == <<at, picker, chosen>>
vars == <<world, faults, live, user, clock, store, tui, handed, before>>

Labels == <<"preconfig", "config">>
Places == (0..MaxSecond) \X {Labels[i] : i \in 1..2}

\* The items of s at the positions in I, in their order: SelectSeq by positions,
\* and without its recursion, which a proof could not use.
ItemsAt(s, I) ==
  [n \in 1..Cardinality(I) |->
     s[CHOOSE i \in I : Cardinality({j \in I : j < i}) = n - 1]]

-------------------------------------------------------------------------------
\* JSON, line by line

ToJson(c) == [k \in Fields |-> [raw |-> c[k], ended |-> TRUE]]

\* json_str: up to the first quote.
BeforeQuote(s) ==
  SubSeq(s, 1, Cardinality({n \in DOMAIN s : \A m \in 1..n : s[m] # Quote}))

\* json_array, json_int, json_float, json_bool, json_str: the line of field k can
\* be read.  A number needs no end, it stops where its digits do.
Readable(k, line) ==
  CASE k \in Numbers -> line.raw \notin {Junk, Infinite}
    [] k = "ns_server" -> line.ended \/ Quote \in ToSet(line.raw)
    [] OTHER -> line.ended

ReadOr(text, k, other) ==
  IF k \notin DOMAIN text \/ ~Readable(k, text[k]) THEN other
  ELSE IF k = "ns_server" THEN BeforeQuote(text[k].raw) ELSE text[k].raw

FromJsonZeroed(text) ==  \* mutant: a field that is not found is zero, not the default
  LET zero == [isolated_cores |-> <<>>, ns_server |-> <<>>, netem_loss_pct |-> 0,
               rt_priority |-> 0, apply_nohz_full |-> FALSE]
  IN [k \in Fields |-> ReadOr(text, k, zero[k])]

\* from_json: a field that is missing or cannot be read keeps its default.
FromJson(text) == [k \in Fields |-> ReadOr(text, k, Default[k])]

\* What is left of a value when the text ends within it.
Cuts(k, raw) ==
  CASE k = "rt_priority" -> {raw \div 10} \ {0}
    [] k = "netem_loss_pct" /\ raw # Infinite -> {raw - (raw % d) : d \in {10, 100, 1000}}
    [] OTHER -> {raw}

\* The texts a write that fails can leave; a line that was cut and cannot be read
\* says as much as no line.
Torn(text) ==
  UNION {LET upto(n) == {Keys[j] : j \in 1..n - 1}
             cut == {[raw |-> r, ended |-> FALSE] : r \in Cuts(Keys[i], text[Keys[i]].raw)}
         IN {[k \in upto(i) |-> text[k]]}
              \cup {[k \in upto(i + 1) |-> IF k = Keys[i] THEN l ELSE text[k]] :
                      l \in {x \in cut : Readable(Keys[i], x)}} :
           i \in 1..Len(Keys)}

Fault(kind) == kind \in world /\ faults < MaxFaults

\* fs::write of c over old: what the file holds then, and the faults so far.  A
\* TUI that dies in the middle, see Crash, leaves it empty.
Write(c, old) ==
  LET left == (IF Fault("full") THEN {old} \cup Torn(ToJson(c)) ELSE {})
                \cup IF Fault("crash") THEN {<<>>} ELSE {}
  IN {<<ToJson(c), faults>>} \cup left \X {faults + 1}

Load(text) == IF text = None THEN Default ELSE FromJson(text)

-------------------------------------------------------------------------------
\* The C structure, and the state captured

\* make_c_cfg and opt_cstring.
ToC(c) == LET null(s) == IF s = <<>> THEN None ELSE s
          IN [c EXCEPT !.isolated_cores = null(@), !.ns_server = null(@)]

FromC(c) == LET full(s) == IF s = None THEN <<>> ELSE s
            IN [c EXCEPT !.isolated_cores = full(@), !.ns_server = full(@)]

CoresAll(items) == items  \* mutant: what does not parse is kept

\* What parses as an i32; a range like 2-5 does not.
Cores(items) == ItemsAt(items, {i \in DOMAIN items : items[i] # Junk})

\* capture_current_state: what the machine does not show is the default; the
\* launch prefix comes from the active configuration.
CaptureCurrentState ==
  [isolated_cores |-> IF live.isolcpus = None THEN <<>> ELSE Cores(live.isolcpus),
   ns_server |-> IF live.netns THEN <<"ns_server">> ELSE <<>>,
   netem_loss_pct |-> Default.netem_loss_pct,
   rt_priority |-> IF active = None THEN 0 ELSE FromJson(active).rt_priority,
   apply_nohz_full |-> live.nohz_full]

ByAgeUnsorted ==  \* mutant: the newest directory is not brought to the front
  [i \in 1..2 * (MaxSecond + 1) |-> <<(i - 1) \div 2, Labels[((i - 1) % 2) + 1]>>]

\* The order of list: newest directory first, preconfig.json before config.json.
ByAge ==
  [i \in 1..2 * (MaxSecond + 1) |->
     <<MaxSecond - (i - 1) \div 2, Labels[((i - 1) % 2) + 1]>>]

\* list: every file there is; one that says nothing is listed with the default.
List ==
  LET there == ItemsAt(ByAge, {i \in DOMAIN ByAge : files[ByAge[i]] # None})
  IN [i \in DOMAIN there |->
        [place |-> there[i], config |-> FromJson(files[there[i]])]]

-------------------------------------------------------------------------------
\* The form

ShownCut(c, k) ==  \* mutant: the third decimal is cut off, not rounded
  IF k = "netem_loss_pct" /\ c[k] # Infinite THEN c[k] - (c[k] % 10) ELSE c[k]

\* get_config_value: what an edit starts from; the loss has two decimals.
Shown(c, k) ==
  IF k = "netem_loss_pct" /\ c[k] # Infinite THEN ((c[k] + 5) \div 10) * 10 ELSE c[k]

\* commit_edit: numbers that do not parse are refused, cores that do not left out.
Commit(c, k, buf) ==
  CASE k = "isolated_cores" ->
         IF Cores(buf) = <<>> THEN c ELSE [c EXCEPT ![k] = Cores(buf)]
    [] k \in Numbers /\ buf = Junk -> c
    [] OTHER -> [c EXCEPT ![k] = buf]

\* A value whose text does not read back as it was.
Odd(k, v) ==
  \/ v = Infinite
  \/ k = "ns_server" /\ Quote \in ToSet(v)

\* A field of the form is edited and committed.
Edit(k) ==
  /\ at = "idle" /\ picker = <<>>
  /\ edits < MaxEdits
  /\ \E buf \in Typed[k] : /\ Odd(k, buf) => "odd" \in world
                           /\ form' = Commit(form, k, buf)
  /\ edits' = IF form' = form THEN edits ELSE edits + 1
  /\ UNCHANGED <<world, faults, live, clock, store, tui, before>>

\* toggle_field.
Toggle(k) ==
  /\ at = "idle" /\ picker = <<>>
  /\ edits < MaxEdits /\ edits' = edits + 1
  /\ form' = [form EXCEPT ![k] = ~@]
  /\ UNCHANGED <<world, faults, live, clock, store, tui, before>>

-------------------------------------------------------------------------------
\* Apply: run_action(25)

\* save: into the directory of this second, over what is there.
Save(c, label) ==
  \E w \in Write(c, files[<<clock, label>>]) :
    files' = [files EXCEPT ![<<clock, label>>] = w[1]] /\ faults' = w[2]

SavePre ==
  /\ at = "idle" /\ picker = <<>>
  /\ "quick" \notin world => \A i \in 1..2 : files[<<clock, Labels[i]>>] = None
  /\ Save(CaptureCurrentState, "preconfig")
  /\ before' = CaptureCurrentState
  /\ at' = "captured"
  /\ UNCHANGED <<world, live, user, clock, active, picker, chosen>>

SaveConfig ==
  /\ at = "captured"
  /\ Save(form, "config")
  /\ at' = "saved"
  /\ UNCHANGED <<world, live, user, clock, active, picker, chosen, before>>

\* run_setup; when it asks for a reboot nothing is made active.
RunSetup ==
  /\ at = "saved"
  /\ handed' = ToC(form)
  /\ live' \in Lives
  /\ at' \in {"idle", "applied"}
  /\ UNCHANGED <<world, faults, user, clock, store, picker, chosen, before>>

\* save_active: fs::write empties the file and then fills it.
EmptyActive ==
  /\ at = "applied"
  /\ active' = <<>>
  /\ at' = "emptied"
  /\ UNCHANGED <<world, faults, live, user, clock, files, picker, chosen, before>>

FillActiveNot ==  \* mutant: what was applied is never made active
  /\ at = "emptied" /\ at' = "idle"
  /\ UNCHANGED <<world, faults, live, user, clock, store, picker, chosen, before>>

FillActive ==
  /\ at = "emptied"
  /\ \E w \in Write(form, active) : active' = w[1] /\ faults' = w[2]
  /\ at' = "idle"
  /\ UNCHANGED <<world, live, user, clock, files, picker, chosen, before>>

-------------------------------------------------------------------------------
\* Teardown: open_teardown_picker, teardown_picker_confirm, run_teardown_inner

OpenPicker ==
  /\ at = "idle" /\ picker = <<>>
  /\ List # <<>> /\ picker' = List
  /\ UNCHANGED <<world, faults, live, user, clock, store, at, chosen, before>>

Cancel ==
  /\ picker # <<>> /\ picker' = <<>>
  /\ UNCHANGED <<world, faults, live, user, clock, store, at, chosen, before>>

\* ubenchmon_teardown removes all of /var/lib/ubenchmon.
Teardown(i) ==
  /\ i \in DOMAIN picker
  /\ chosen' = picker[i].config
  /\ picker' = <<>> /\ at' = "restoring"
  /\ files' = [p \in Places |-> None] /\ active' = None
  /\ live' \in Lives /\ before' = None
  /\ UNCHANGED <<world, faults, user, clock>>

RestoreByPath ==  \* mutant: the file chosen is read again, after the teardown
  /\ at = "restoring"
  /\ handed' = ToC(Default)
  /\ chosen' = None /\ at' = "idle"
  /\ live' \in Lives
  /\ UNCHANGED <<world, faults, user, clock, store, picker, before>>

Restore ==
  /\ at = "restoring"
  /\ handed' = ToC(chosen)
  /\ chosen' = None /\ at' = "idle"
  /\ live' \in Lives
  /\ UNCHANGED <<world, faults, user, clock, store, picker, before>>

-------------------------------------------------------------------------------
\* Around the TUI

\* run_daemon, at boot or when a service is started.
Daemon ==
  /\ handed' = ToC(Load(active))
  /\ live' \in Lives
  /\ UNCHANGED <<world, faults, user, clock, store, tui, before>>

\* A reboot, or somebody at a shell.
Machine ==
  /\ live' \in Lives
  /\ UNCHANGED <<world, faults, user, clock, store, tui, before>>

Tick ==
  /\ at \in {"idle", "emptied"} \/ "slow" \in world
  /\ \/ clock < MaxSecond /\ clock' = clock + 1
     \/ "back" \in world /\ clock' \in 0..clock - 1
  /\ UNCHANGED <<world, faults, live, user, store, tui, before>>

\* The TUI dies and is started again; the form is the default (App::new).
Crash ==
  /\ "crash" \in world
  /\ faults < MaxFaults /\ faults' = faults + 1
  /\ form' = Default
  /\ at' = "idle" /\ picker' = <<>> /\ chosen' = None
  /\ before' = None
  /\ UNCHANGED <<world, live, edits, clock, store>>

Init ==
  /\ world \in Worlds /\ faults = 0
  /\ live \in Lives
  /\ form = Default /\ edits = 0 /\ clock = 0
  /\ files = [p \in Places |-> None] /\ active = None
  /\ at = "idle" /\ picker = <<>> /\ chosen = None
  /\ handed = None /\ before = None

\* The steps that give the library nothing.
Quiet ==
  \/ \E k \in Fields \ Toggles : Edit(k)
  \/ \E k \in Toggles : Toggle(k)
  \/ SavePre \/ SaveConfig \/ EmptyActive \/ FillActive
  \/ OpenPicker \/ Cancel
  \/ \E i \in 1..Cardinality(Places) : Teardown(i)
  \/ Machine \/ Tick \/ Crash

Next ==
  \/ Quiet /\ handed' = None
  \/ RunSetup \/ Restore \/ Daemon

Spec == Init /\ [][Next]_vars

-------------------------------------------------------------------------------
\* Properties

IsText(t) == t = None \/ FromJson(t) \in Configs

\* The type invariant: whatever a file says, it reads as a configuration.
TypeOK ==
  /\ world \in Worlds /\ faults \in 0..MaxFaults /\ live \in Lives
  /\ form \in Configs /\ edits \in 0..MaxEdits /\ clock \in 0..MaxSecond
  /\ \A p \in Places : IsText(files[p])
  /\ IsText(active)
  /\ at \in {"idle", "captured", "saved", "applied", "emptied", "restoring"}
  /\ \A i \in DOMAIN picker : picker[i].config \in Configs
  /\ chosen = None \/ chosen \in Configs
  /\ handed = None \/ FromC(handed) \in Configs
  /\ before = None \/ before \in Configs

\* How far an Apply has come, as RestoreLog says it.
Stage ==
  CASE at = "captured" -> "state"
    [] at = "saved" -> "kept"
    [] at \in {"applied", "emptied"} -> "owed"
    [] OTHER -> "idle"

\* No two writes have the same place, and every text is whole and says all.
Orderly ==
  /\ world \cap {"odd", "quick", "full", "crash"} = {}
  /\ ~({"slow", "back"} \subseteq world)

\* Refinement: in the orderly worlds the store keeps the promise of RestoreLog.
\* What an Apply found, and what it applied, overwrites nothing that was put away
\* before, comes back as it was and reaches the library through the C structure;
\* unless the setup asks for a reboot what was applied is made active before the
\* next Apply, and a daemon sets it up ("so Teardown can restore any previous
\* state", snapshot_store.rs:1-3; run_daemon, service.rs).  Applies in one second are
\* not orderly: the second one overwrites the state that the first had put away.
Log == INSTANCE RestoreLog WITH
  promised <- Orderly, stage <- Stage,
  wish <- form, now <- CaptureCurrentState,
  points <- [p \in Places |-> IF files[p] = None THEN None ELSE FromJson(files[p])],
  base <- Load(active), due <- chosen,
  handed <- IF handed = None THEN None ELSE FromC(handed)
StoreSpec == Log!Spec

\* The entry the picker starts on is the state the last Apply found, as long as
\* an Apply's two files get the same second and the clock does not go back.
\* Otherwise Enter, Enter in the picker applies the configuration again.
NewestIsPre ==
  picker # <<>> /\ world \cap {"slow", "back", "full", "crash"} = {} => picker[1].config = before

\* If the write of the configuration, due next, is cut short, the file reads as the
\* saved values for as many fields as have their whole line, in the order to_json
\* writes them, and as the defaults for all but the next one.  That one reads as
\* either, or, if it is a number, as a smaller one.
TornIsPrefix ==
  at = "captured" =>
    LET saved == FromJson(ToJson(form))
    IN \A t \in Torn(ToJson(form)) :
         \E i \in 1..Len(Keys) :
           LET v == FromJson(t)[Keys[i]]
           IN /\ {k \in DOMAIN t : t[k].ended} = {Keys[j] : j \in 1..i - 1}
              /\ \A j \in 1..Len(Keys) :
                   /\ j < i => FromJson(t)[Keys[j]] = saved[Keys[j]]
                   /\ j > i => FromJson(t)[Keys[j]] = Default[Keys[j]]
              /\ \/ v \in {saved[Keys[i]], Default[Keys[i]]}
                 \/ Keys[i] \in Numbers /\ v < saved[Keys[i]]

\* Enter, Enter on a field leaves the configuration as it is, but for the loss,
\* which the form shows, and then takes over, with two decimals.
ReenterKeeps ==
  \A k \in Fields \ Toggles :
    LET c == Commit(form, k, Shown(form, k))
    IN /\ \A f \in Fields \ {"netem_loss_pct"} : c[f] = form[f]
       /\ form.netem_loss_pct # Infinite =>
            c.netem_loss_pct - form.netem_loss_pct \in -5..5
===============================================================================
