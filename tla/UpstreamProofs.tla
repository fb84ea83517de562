--------------------------- MODULE UpstreamProofs ----------------------------
(***************************************************************************)
(* A route entry under health checks implements Selection, for every       *)
(* number of requests, backends and steps.                                 *)
(*                                                                         *)
(* A probe's report either changes the flag, which is Selection's Flip, or *)
(* repeats what the flag said.  The history variable steady then stays as  *)
(* it is, because it only holds backends whose flags are set.              *)
(***************************************************************************)
EXTENDS Upstream, TLAPS

\* The inductive invariant: the flags of the entry, and what the requests
\* remember of them.
FlagsFit ==
  /\ flags \in [{Entry} -> [Backends -> BOOLEAN]]
  /\ steady \in [Requests -> SUBSET Backends]
  /\ \A r \in Requests : \A b \in steady[r] : flags[Entry][b]

LEMMA FlagsInit == Init => FlagsFit
  BY DEF Init, Rounds!Init, Sel!Init, FlagsFit, Backends, Ready

\* A report reaches the flag of one backend.
LEMMA Reported ==
  ASSUME FlagsFit, NEW b \in Backends, Report(b)
  PROVE  \E found \in BOOLEAN :
           /\ flags' = [flags EXCEPT ![Entry] = [flags[Entry] EXCEPT ![b] = found]]
           /\ steady' = [r \in Requests |-> {x \in steady[r] : x = b => found}]
           /\ UNCHANGED <<counter, pc, index, steps, seen, alone>>
<1> DEFINE found == (check[Entry][b] = "ok")
<1>1. found \in BOOLEAN
  OBVIOUS
<1>2. flags' = [flags EXCEPT ![Entry] = [flags[Entry] EXCEPT ![b] = found]]
  BY DEF Report, Rounds!Report
<1>3. \A x \in Backends : flags'[Entry][x] = IF x = b THEN found ELSE flags[Entry][x]
  BY <1>2 DEF FlagsFit
<1>4. steady' = [r \in Requests |-> {x \in steady[r] : x = b => found}]
  BY <1>3 DEF FlagsFit, Report
<1>5. QED
  BY <1>1, <1>2, <1>4 DEF Report

LEMMA FlagsNext ==
  ASSUME FlagsFit, [Next]_vars
  PROVE  FlagsFit'
<1>1. ASSUME NEW r \in Requests, Begin(r) PROVE FlagsFit'
  <2>1. flags' = flags /\ steady' = [steady EXCEPT ![r] = {b \in Backends : flags[Entry][b]}]
    BY <1>1 DEF Begin, healthVars, Sel!Begin, Sel!ReadyNow, Sel!Backends, Backends, Ready
  <2>2. QED
    BY <2>1 DEF FlagsFit
<1>2. ASSUME UNCHANGED <<flags, steady>> PROVE FlagsFit'
  BY <1>2 DEF FlagsFit
<1>3. ASSUME NEW r \in Requests, Continue(r) PROVE FlagsFit'
  BY <1>2, <1>3 DEF Continue, healthVars, Sel!Fetch, Sel!Judge, Sel!GiveUp, Sel!Choose, Sel!Skip
<1>4. ASSUME Check PROVE FlagsFit'
  BY <1>2, <1>4 DEF Check, selectionVars, Rounds!StartRound, Rounds!Probe
<1>5. ASSUME NEW b \in Backends, Report(b) PROVE FlagsFit'
  <2>1. PICK found \in BOOLEAN :
          /\ flags' = [flags EXCEPT ![Entry] = [flags[Entry] EXCEPT ![b] = found]]
          /\ steady' = [r \in Requests |-> {x \in steady[r] : x = b => found}]
    BY <1>5, Reported
  <2>2. \A x \in Backends : flags'[Entry][x] = IF x = b THEN found ELSE flags[Entry][x]
    BY <2>1 DEF FlagsFit
  <2>3. flags' \in [{Entry} -> [Backends -> BOOLEAN]]
    BY <2>1 DEF FlagsFit
  <2>4. steady' \in [Requests -> SUBSET Backends]
    BY <2>1 DEF FlagsFit
  <2>5. ASSUME NEW r \in Requests, NEW x \in steady'[r] PROVE flags'[Entry][x]
    <3>1. x \in steady[r] /\ x \in Backends /\ (x = b => found)
      BY <2>1, <2>5 DEF FlagsFit
    <3>2. QED
      BY <2>2, <3>1 DEF FlagsFit
  <2>6. QED
    BY <2>3, <2>4, <2>5 DEF FlagsFit
<1>6. ASSUME NEW b \in Backends, Change(b) PROVE FlagsFit'
  BY <1>2, <1>6 DEF Change, selectionVars, Rounds!Change
<1>7. ASSUME UNCHANGED vars PROVE FlagsFit'
  BY <1>2, <1>7 DEF vars, healthVars, selectionVars
<1>8. QED
  BY <1>1, <1>3, <1>4, <1>5, <1>6, <1>7 DEF Next

LEMMA FlagsHold == Spec => []FlagsFit
  BY FlagsInit, FlagsNext, PTL DEF Spec

-----------------------------------------------------------------------------
(* The refinement                                                          *)

LEMMA ReportImplements ==
  ASSUME FlagsFit, NEW b \in Backends, Report(b)
  PROVE  Sel!Flip(b) \/ UNCHANGED Sel!vars
<1>1. PICK found \in BOOLEAN :
        /\ flags' = [flags EXCEPT ![Entry] = [flags[Entry] EXCEPT ![b] = found]]
        /\ steady' = [r \in Requests |-> {x \in steady[r] : x = b => found}]
        /\ UNCHANGED <<counter, pc, index, steps, seen, alone>>
  BY Reported
<1>2. Ready \in [Backends -> BOOLEAN] /\ Ready' = [Ready EXCEPT ![b] = found]
  BY <1>1 DEF FlagsFit, Ready
<1>3. CASE found = Ready[b]
  <2>1. Ready' = Ready
    BY <1>2, <1>3
  <2>2. \A r \in Requests : {x \in steady[r] : x = b => found} = steady[r]
    BY <1>3 DEF FlagsFit, Ready
  <2>3. steady' = steady
    BY <1>1, <2>2 DEF FlagsFit
  <2>4. QED
    BY <1>1, <2>1, <2>3 DEF Sel!vars, Sel!reqVars
<1>4. CASE found = ~Ready[b]
  <2>1. Ready' = [Ready EXCEPT ![b] = ~Ready[b]]
    BY <1>2, <1>4
  <2>2. \A r \in Requests : {x \in steady[r] : x = b => found} = steady[r] \ {b}
    BY <1>4 DEF FlagsFit, Ready
  <2>3. steady' = [r \in Requests |-> steady[r] \ {b}]
    BY <1>1, <2>2
  <2>4. QED
    BY <1>1, <2>1, <2>3 DEF Sel!Flip, Sel!reqVars
<1>5. QED
  BY <1>2, <1>3, <1>4

LEMMA NextImplements ==
  ASSUME FlagsFit, [Next]_vars
  PROVE  [Sel!Next]_(Sel!vars)
<1>1. ASSUME NEW r \in Requests, Begin(r) PROVE Sel!Begin(r)
  BY <1>1 DEF Begin
<1>2. ASSUME NEW r \in Requests, Continue(r) PROVE Sel!Fetch(r) \/ Sel!Judge(r)
  BY <1>2 DEF Continue
<1>3. ASSUME Check PROVE UNCHANGED Sel!vars
  BY <1>3 DEF Check, Rounds!StartRound, Rounds!Probe, Ready, selectionVars, Sel!vars, Sel!reqVars
<1>4. ASSUME NEW b \in Backends, Report(b) PROVE Sel!Flip(b) \/ UNCHANGED Sel!vars
  BY <1>4, ReportImplements
<1>5. ASSUME NEW b \in Backends, Change(b) PROVE UNCHANGED Sel!vars
  BY <1>5 DEF Change, Rounds!Change, Ready, selectionVars, Sel!vars, Sel!reqVars
<1>6. ASSUME UNCHANGED vars PROVE UNCHANGED Sel!vars
  BY <1>6 DEF vars, healthVars, selectionVars, Ready, Sel!vars, Sel!reqVars
<1>7. QED
  BY <1>1, <1>2, <1>3, <1>4, <1>5, <1>6 DEF Next, Sel!Next, Backends, Sel!Backends

LEMMA InitImplements == Init => Sel!Init
  BY DEF Init

\* Whatever the health checks do to the flags is what Selection expects of its
\* environment: what is shown of Selection holds of the proxy's route entries.
THEOREM UpstreamImplementsSelection == Spec => ImplementsSelection
<1>1. FlagsFit /\ [Next]_vars => [Sel!Next]_(Sel!vars)
  BY NextImplements
<1>2. QED
  BY <1>1, InitImplements, FlagsHold, PTL DEF Spec, ImplementsSelection, Sel!Spec

=============================================================================
