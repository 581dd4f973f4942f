----------------------------- MODULE GatewaysProofs -----------------------------
(***************************************************************************)
(* Which gateway a group has, which name a client asks for, where a        *)
(* connection goes, and which name a mapped address stands for:            *)
(* GatewaySelector for any groups, candidate lists and number of selectors, *)
(* ClientHello for messages of any length, cut in any way, Routing for any *)
(* names and rules, MappedDns for tables of any size and queries of any    *)
(* length.                                                                 *)
(***************************************************************************)
EXTENDS GatewaySelector, ClientHello, Routing, MappedDns, SequenceTheorems, WellFoundedInduction, TLAPS

-----------------------------------------------------------------------------
(* The gateway selector: SelectorInv is inductive.  From it: an open       *)
(* selector's refresh is right, no selector ever chooses a gateway that    *)
(* did not pass, and, if refreshes of different selectors do not overlap,  *)
(* what is used is what is saved and what is shown.                        *)

LEMMA CandidatesAreAddresses ==
    \A g \in Groups : CandidateSet(g) \subseteq Addresses /\ Default[g] \in CandidateSet(g)
BY SelectorAssumption DEF SelectorAssumption, CandidateSet, Range

(* loadSavedGateways yields a choice, whatever was saved. *)
LEMMA LoadedIsChoice == \A saved : Loaded(saved) \in Selections
BY CandidatesAreAddresses DEF Loaded, Selections

(* A choice that was saved is loaded as it was. *)
LEMMA LoadedChoice == \A choice \in Selections : Loaded(choice) = choice
BY DEF Loaded, Selections

LEMMA CurrentAreKeys ==
    ASSUME TypeOK, NEW s \in Selectors
    PROVE  CurrentKeys(s) \subseteq Keys
BY DEF TypeOK, CurrentKeys, Keys, Selections

LEMMA InvInit == Init => SelectorInv
<1> SUFFICES ASSUME Init PROVE SelectorInv
  OBVIOUS
<1>1. Default \in Selections
  BY CandidatesAreAddresses, SelectorAssumption DEF Selections, SelectorAssumption
<1>2. TypeOK BY <1>1, SelectorAssumption DEF Init, TypeOK, SelectorAssumption
<1> QED BY <1>2 DEF Init, SelectorInv, UnmadeIsQuiet, OneOpen, QuietBetweenRefreshes,
     OnlyClosedInterrupted, PassedDoPass, CollectedIsExact, AloneUnlessOverlap

LEMMA InvService ==
    ASSUME SelectorInv, NEW s \in Selectors,
           Made(s) \/ Starts(s) \/ CloseMarks(s) \/ CloseInterrupts(s)
    PROVE  SelectorInv'
<1> USE DEF SelectorInv, TypeOK, UnmadeIsQuiet, OneOpen, QuietBetweenRefreshes,
            OnlyClosedInterrupted, PassedDoPass, CollectedIsExact, AloneUnlessOverlap,
            Settled, CurrentKeys, storeVars, threadVars
<1>1. CASE Made(s) BY <1>1, LoadedIsChoice DEF Made
<1>2. CASE Starts(s) BY <1>2 DEF Starts
<1>3. CASE CloseMarks(s) BY <1>3 DEF CloseMarks
<1>4. CASE CloseInterrupts(s) BY <1>4 DEF CloseInterrupts
<1> QED BY <1>1, <1>2, <1>3, <1>4

LEMMA InvRefresh ==
    ASSUME SelectorInv, NEW s \in Selectors, RefreshBegins(s) \/ RefreshSteps(s)
    PROVE  SelectorInv'
<1> USE DEF SelectorInv, TypeOK, UnmadeIsQuiet, OneOpen, QuietBetweenRefreshes,
            OnlyClosedInterrupted, PassedDoPass, CollectedIsExact, AloneUnlessOverlap,
            Settled, CurrentKeys, storeVars, threadVars
<1>0. CurrentKeys(s) \subseteq Keys BY CurrentAreKeys
<1>1. CASE RefreshBegins(s) BY <1>1, SelectorAssumption DEF RefreshBegins, SelectorAssumption
<1>2. CASE AuthorizationInterrupted(s) BY <1>2 DEF AuthorizationInterrupted
<1>3. CASE CurrentSubmitted(s) BY <1>0, <1>3 DEF CurrentSubmitted
<1>4. CASE ProbeCollected(s) BY <1>4 DEF ProbeCollected
<1>5. CASE ProbeInterrupted(s) BY <1>5 DEF ProbeInterrupted
<1>6. CASE AlternativesSubmitted(s) BY <1>0, <1>6 DEF AlternativesSubmitted
<1>7. CASE Selects(s) BY <1>7 DEF Selects
<1>8. CASE Persists(s) BY <1>8 DEF Persists, Selections
<1>9. CASE Reports(s) BY <1>9 DEF Reports
<1> QED BY <1>1, <1>2, <1>3, <1>4, <1>5, <1>6, <1>7, <1>8, <1>9 DEF RefreshSteps

LEMMA InvSystem == ASSUME SelectorInv, Flushes \/ ProcessDies PROVE SelectorInv'
<1> USE DEF SelectorInv, TypeOK, UnmadeIsQuiet, OneOpen, QuietBetweenRefreshes,
            OnlyClosedInterrupted, PassedDoPass, CollectedIsExact, AloneUnlessOverlap,
            Settled, CurrentKeys, storeVars, threadVars
<1>1. CASE Flushes BY <1>1 DEF Flushes
<1>2. CASE ProcessDies BY <1>2, SelectorAssumption DEF ProcessDies, SelectorAssumption
<1> QED BY <1>1, <1>2

LEMMA InvStutter == SelectorInv /\ UNCHANGED vars => SelectorInv'
BY DEF vars, storeVars, threadVars, SelectorInv, TypeOK, UnmadeIsQuiet, OneOpen,
       QuietBetweenRefreshes, OnlyClosedInterrupted, PassedDoPass, CollectedIsExact,
       AloneUnlessOverlap, Settled, CurrentKeys

LEMMA InvStep == SelectorInv /\ [Next]_vars => SelectorInv'
BY InvService, InvRefresh, InvSystem, InvStutter DEF Next

(* SelectorInv holds in every reachable state. *)
THEOREM SelectorInvariance == Spec => []SelectorInv
<1>1. Init => SelectorInv BY InvInit
<1>2. SelectorInv /\ [Next]_vars => SelectorInv' BY InvStep
<1> QED BY <1>1, <1>2, PTL DEF Spec

-----------------------------------------------------------------------------
(* The step that replaces the choice *)

(* Only selectors' own Selects replaces a choice in mid-refresh. *)
LEMMA OnlySelectsSelects ==
    ASSUME SelectorInv, [Next]_vars, NEW s \in Selectors, pc[s] = "alternatives",
           pc'[s] = "persist" \/ selected'[s] # selected[s]
    PROVE  Selects(s)
<1> USE DEF SelectorInv, TypeOK, storeVars, threadVars
<1>1. CASE UNCHANGED vars BY <1>1 DEF vars
<1>2. CASE Flushes \/ ProcessDies BY <1>2 DEF Flushes, ProcessDies
<1>3. ASSUME NEW r \in Selectors, Made(r) PROVE Selects(s)
  BY <1>3 DEF Made, UnmadeIsQuiet
<1>4. ASSUME NEW r \in Selectors, Starts(r) \/ CloseMarks(r) \/ CloseInterrupts(r)
      PROVE  Selects(s)
  BY <1>4 DEF Starts, CloseMarks, CloseInterrupts
<1>5. ASSUME NEW r \in Selectors, RefreshBegins(r) \/ AuthorizationInterrupted(r)
                 \/ CurrentSubmitted(r) \/ AlternativesSubmitted(r)
      PROVE  Selects(s)
  BY <1>5 DEF RefreshBegins, AuthorizationInterrupted, CurrentSubmitted, AlternativesSubmitted
<1>6. ASSUME NEW r \in Selectors, ProbeCollected(r) \/ ProbeInterrupted(r)
      PROVE  Selects(s)
  BY <1>6 DEF ProbeCollected, ProbeInterrupted
<1>7. ASSUME NEW r \in Selectors, Persists(r) \/ Reports(r)
      PROVE  Selects(s)
  BY <1>7 DEF Persists, Reports
<1>8. ASSUME NEW r \in Selectors, Selects(r) PROVE Selects(s)
  BY <1>8 DEF Selects
<1> QED BY <1>1, <1>2, <1>3, <1>4, <1>5, <1>6, <1>7, <1>8 DEF Next, RefreshSteps

(* The gateway that replaces one is one that passed. *)
LEMMA SelectsPassed ==
    ASSUME SelectorInv, NEW s \in Selectors, Selects(s), NEW g \in Groups,
           selected'[s][g] # selected[s][g]
    PROVE  <<g, selected'[s][g]>> \in passed[s]
BY DEF Selects, Replaces, IsFirst, SelectorInv, TypeOK

(* No selector ever chooses a gateway whose probes did not pass. *)
THEOREM OnlyPassingChosenTheorem == Spec => OnlyPassingChosen
<1>1. ASSUME SelectorInv, [Next]_vars, NEW s \in Selectors, NEW g \in Groups,
             pc[s] = "alternatives", selected'[s][g] # selected[s][g]
      PROVE  <<g, selected'[s][g]>> \in answers[s]
  <2>1. Selects(s) BY <1>1, OnlySelectsSelects
  <2> QED BY <1>1, <2>1, SelectsPassed DEF SelectorInv, PassedDoPass
<1>2. SelectorInv /\ [Next]_vars =>
        [\A s \in Selectors, g \in Groups :
            pc[s] = "alternatives" /\ selected'[s][g] # selected[s][g] =>
               <<g, selected'[s][g]>> \in answers[s]]_vars
  BY <1>1
<1> QED BY <1>2, SelectorInvariance, PTL DEF Spec, OnlyPassingChosen

(* If the results are exact, the code's choice is what a refresh owes. *)
LEMMA ReplacesIsRight ==
    ASSUME NEW g \in Groups, NEW old \in Addresses, NEW new \in Addresses,
           NEW P, NEW A,
           <<g, old>> \in P <=> <<g, old>> \in A,
           <<g, old>> \notin P =>
              \A a \in CandidateSet(g) : <<g, a>> \in P <=> <<g, a>> \in A,
           Replaces(g, old, new, P)
    PROVE  IsRight(g, old, new, A)
<1> USE DEF IsRight, Replaces
<1>1. Candidates[g] \in Seq(Addresses) /\ IsInjective(Candidates[g])
  BY SelectorAssumption DEF SelectorAssumption
<1>2. CASE <<g, old>> \in P BY <1>2, <1>1 DEF IsFirst
<1>3. CASE <<g, old>> \notin P /\ IsFirst(g, new, P)
  <2>1. PICK n \in DOMAIN Candidates[g] :
           /\ new = Candidates[g][n] /\ <<g, new>> \in P
           /\ \A m \in 1 .. n - 1 : <<g, Candidates[g][m]>> \notin P
    BY <1>3 DEF IsFirst
  <2>2. \A i \in DOMAIN Candidates[g] : Candidates[g][i] \in CandidateSet(g)
    BY <1>1 DEF CandidateSet, Range
  <2>3. \A i \in DOMAIN Candidates[g] : Candidates[g][i] = new => i = n
    BY <1>1, <2>1 DEF IsInjective
  <2>4. \A m \in 1 .. n - 1 : m \in DOMAIN Candidates[g]
    BY <1>1
  <2>5. new \in CandidateSet(g) BY <2>1, <2>2
  <2> QED BY <1>3, <2>1, <2>2, <2>3, <2>4, <2>5
<1>4. CASE <<g, old>> \notin P /\ new = old /\ \A b \in CandidateSet(g) : <<g, b>> \notin P
  BY <1>4
<1> QED BY <1>2, <1>3, <1>4

(* A refresh of an open selector does what it owes. *)
THEOREM RefreshIsRightTheorem == Spec => RefreshIsRight
<1>1. ASSUME SelectorInv, [Next]_vars, NEW s \in Selectors, NEW g \in Groups,
             pc[s] = "alternatives", pc'[s] = "persist", closing[s] = "open"
      PROVE  IsRight(g, selected[s][g], selected'[s][g], answers[s])
  <2>1. Selects(s) BY <1>1, OnlySelectsSelects
  <2>2. PICK choice \in Selections :
           /\ \A h \in Groups : Replaces(h, selected[s][h], choice[h], passed[s])
           /\ selected' = [selected EXCEPT ![s] = choice]
    BY <2>1 DEF Selects
  <2>3. selected'[s] = choice BY <1>1, <2>2 DEF SelectorInv, TypeOK
  <2>4. selected[s] \in Selections BY <1>1 DEF SelectorInv, TypeOK
  <2>5. todo[s] = {} BY <2>1 DEF Selects
  <2>6. \A key \in Keys : <<key[1], selected[s][key[1]]>> \notin passed[s] =>
           (key \in passed[s] <=> key \in answers[s])
    BY <1>1, <2>5 DEF SelectorInv, CollectedIsExact, Settled
  <2>7. \A a \in CandidateSet(g) : <<g, a>> \in Keys
    BY CandidatesAreAddresses DEF Keys
  <2>8. selected[s][g] \in CandidateSet(g) BY <2>4 DEF Selections
  <2>9. passed[s] \subseteq answers[s] BY <1>1 DEF SelectorInv, PassedDoPass
  <2>10. <<g, selected[s][g]>> \notin passed[s] =>
            \A a \in CandidateSet(g) : <<g, a>> \in passed[s] <=> <<g, a>> \in answers[s]
    BY <2>6, <2>7
  <2>11. <<g, selected[s][g]>> \in passed[s] <=> <<g, selected[s][g]>> \in answers[s]
    BY <2>8, <2>9, <2>10
  <2>12. selected[s][g] \in Addresses /\ choice[g] \in Addresses BY <2>4 DEF Selections
  <2> QED BY <2>2, <2>3, <2>10, <2>11, <2>12, ReplacesIsRight
<1>2. SelectorInv /\ [Next]_vars =>
        [\A s \in Selectors, g \in Groups :
            pc[s] = "alternatives" /\ pc'[s] = "persist" /\ closing[s] = "open" =>
               IsRight(g, selected[s][g], selected'[s][g], answers[s])]_vars
  BY <1>1
<1> QED BY <1>2, SelectorInvariance, PTL DEF Spec, RefreshIsRight

-----------------------------------------------------------------------------
(* What is used, what is saved, what is shown *)

LEMMA SavedStep ==
    ASSUME ~Overlap, SelectorInv, SavedIsUsed, [Next]_vars
    PROVE  SavedIsUsed'
<1> USE DEF SavedIsUsed, SelectorInv, TypeOK, storeVars, threadVars
<1>1. CASE UNCHANGED vars BY <1>1 DEF vars, Loaded
<1>2. CASE Flushes BY <1>2 DEF Flushes, Loaded
<1>3. CASE ProcessDies BY <1>3 DEF ProcessDies
<1>4. ASSUME NEW r \in Selectors, Made(r) PROVE SavedIsUsed'
  BY <1>4 DEF Made, Loaded
<1>5. ASSUME NEW r \in Selectors, Starts(r) \/ CloseMarks(r) \/ CloseInterrupts(r)
      PROVE  SavedIsUsed'
  BY <1>5 DEF Starts, CloseMarks, CloseInterrupts, Loaded
<1>6. ASSUME NEW r \in Selectors, RefreshBegins(r) \/ AuthorizationInterrupted(r)
                 \/ CurrentSubmitted(r) \/ AlternativesSubmitted(r)
      PROVE  SavedIsUsed'
  BY <1>6 DEF RefreshBegins, AuthorizationInterrupted, CurrentSubmitted,
              AlternativesSubmitted, Loaded
<1>7. ASSUME NEW r \in Selectors, ProbeCollected(r) \/ ProbeInterrupted(r)
      PROVE  SavedIsUsed'
  BY <1>7 DEF ProbeCollected, ProbeInterrupted, Loaded
<1>8. ASSUME NEW r \in Selectors, Selects(r) PROVE SavedIsUsed'
  BY <1>8 DEF Selects, Loaded
<1>9. ASSUME NEW r \in Selectors, Persists(r) PROVE SavedIsUsed'
  <2>1. Loaded(prefs') = selected[r] BY <1>9, LoadedChoice DEF Persists
  <2>2. \A s \in Selectors : closing[s] = "open" => s = r
    BY <1>9 DEF Persists, AloneUnlessOverlap
  <2> QED BY <1>9, <2>1, <2>2 DEF Persists
<1>10. ASSUME NEW r \in Selectors, Reports(r) PROVE SavedIsUsed'
  BY <1>10 DEF Reports, Loaded
<1> QED BY <1>1, <1>2, <1>3, <1>4, <1>5, <1>6, <1>7, <1>8, <1>9, <1>10 DEF Next, RefreshSteps

(* If the refreshes of different selectors do not overlap, a start loads   *)
(* what the selector before it used last, if it was written.               *)
THEOREM SavedIsUsedTheorem == ASSUME ~Overlap PROVE Spec => []SavedIsUsed
<1>1. Init => SavedIsUsed BY DEF Init, SavedIsUsed
<1>2. SelectorInv /\ SavedIsUsed /\ [Next]_vars => SavedIsUsed' BY SavedStep
<1> QED BY <1>1, <1>2, SelectorInvariance, PTL DEF Spec

LEMMA ShownStep ==
    ASSUME SelectorInv, ShownIsUsed, [Next]_vars
    PROVE  ShownIsUsed'
<1> USE DEF ShownIsUsed, SelectorInv, TypeOK, storeVars, threadVars
<1>1. CASE UNCHANGED vars BY <1>1 DEF vars
<1>2. CASE Flushes \/ ProcessDies BY <1>2 DEF Flushes, ProcessDies
<1>3. ASSUME NEW r \in Selectors, Made(r) PROVE ShownIsUsed'
  BY <1>3 DEF Made, UnmadeIsQuiet
<1>4. ASSUME NEW r \in Selectors, Starts(r) PROVE ShownIsUsed'
  BY <1>4 DEF Starts, OneOpen
<1>5. ASSUME NEW r \in Selectors, CloseMarks(r) \/ CloseInterrupts(r) PROVE ShownIsUsed'
  BY <1>5 DEF CloseMarks, CloseInterrupts
<1>6. ASSUME NEW r \in Selectors, RefreshBegins(r) \/ AuthorizationInterrupted(r)
                 \/ CurrentSubmitted(r) \/ AlternativesSubmitted(r)
      PROVE  ShownIsUsed'
  BY <1>6 DEF RefreshBegins, AuthorizationInterrupted, CurrentSubmitted, AlternativesSubmitted
<1>7. ASSUME NEW r \in Selectors, ProbeCollected(r) \/ ProbeInterrupted(r)
      PROVE  ShownIsUsed'
  BY <1>7 DEF ProbeCollected, ProbeInterrupted
<1>8. ASSUME NEW r \in Selectors, Selects(r) \/ Persists(r) PROVE ShownIsUsed'
  BY <1>8 DEF Selects, Persists
<1>9. ASSUME NEW r \in Selectors, Reports(r) PROVE ShownIsUsed'
  BY <1>9 DEF Reports, OneOpen
<1> QED BY <1>1, <1>2, <1>3, <1>4, <1>5, <1>6, <1>7, <1>8, <1>9 DEF Next, RefreshSteps

(* The summary shown names the gateways in use, refreshes and restarts or  *)
(* not.                                                                    *)
THEOREM ShownIsUsedTheorem == Spec => []ShownIsUsed
<1>1. Init => ShownIsUsed BY DEF Init, ShownIsUsed
<1>2. SelectorInv /\ ShownIsUsed /\ [Next]_vars => ShownIsUsed' BY ShownStep
<1> QED BY <1>1, <1>2, SelectorInvariance, PTL DEF Spec

-----------------------------------------------------------------------------
(* Numbers: induction without an operator, and the smallest of a set.      *)

LEMMA Counting ==
    ASSUME NEW T \in SUBSET Nat, 0 \in T, \A n \in T : n + 1 \in T
    PROVE  \A n \in Nat : n \in T
<1> SUFFICES ASSUME Nat \ T # {} PROVE FALSE
  OBVIOUS
<1>1. PICK m \in Nat \ T : \A y \in Nat \ T : ~ (<<y, m>> \in OpToRel(<, Nat))
  BY NatLessThanWellFounded, WFMin
<1>2. OpToRel(<, Nat) = {ss \in Nat \X Nat : ss[1] < ss[2]}
  BY DEF OpToRel
<1>3. \A y \in Nat \ T : ~ (y < m)
  BY <1>1, <1>2
<1>4. m - 1 \in Nat /\ m - 1 < m /\ (m - 1) + 1 = m
  <2>1. m \in Nat /\ m # 0
    OBVIOUS
  <2> QED BY <2>1
<1>5. m - 1 \in T BY <1>3, <1>4
<1> QED BY <1>1, <1>4, <1>5

LEMMA Least ==
    ASSUME NEW S \in SUBSET Nat, S # {}
    PROVE  Min(S) \in S /\ \A x \in S : Min(S) <= x
<1>1. PICK m \in S : \A y \in S : ~ (<<y, m>> \in OpToRel(<, Nat))
  BY NatLessThanWellFounded, WFMin
<1>2. OpToRel(<, Nat) = {ss \in Nat \X Nat : ss[1] < ss[2]}
  BY DEF OpToRel
<1>3. \A y \in S : ~ (y < m)
  BY <1>1, <1>2
<1>4. \A y \in S : m <= y
  BY <1>3
<1> QED BY <1>4 DEF Min

-----------------------------------------------------------------------------
(* The ClientHello.  What parse's loop tells is a function of where it is  *)
(* and of what it holds.  By induction over the bytes still to come: it    *)
(* tells of the first bytes what it tells of all of them, and a name only  *)
(* if records that carry a ClientHello for it stand in front; by induction *)
(* over these records, it then does tell the name.                         *)

Bytes == Seq(Nat)

(* Where the record at offset ends, and the handshake bytes behind it. *)
EndAt(bytes, offset) == offset + RecordHeader + bytes[offset + 2]
Held(bytes, offset, message) == message \o SubSeq(bytes, offset + RecordHeader + 1, EndAt(bytes, offset))

HasRecord(bytes, offset) ==
    /\ offset + RecordHeader <= Len(bytes) /\ bytes[offset + 1] = TlsHandshake
    /\ EndAt(bytes, offset) <= Len(bytes)

(* What a complete message says. *)
Said(message) == ParseHandshake(SubSeq(message, 1, message[2] + MessageHeader))

(* One turn of parse's loop, which goes on with g. *)
HelloTurn(g, bytes, offset, message) ==
    IF offset + RecordHeader > Len(bytes) THEN NeedMore
    ELSE IF bytes[offset + 1] # TlsHandshake
         THEN IF message = <<>> THEN NotTls ELSE NeedMore
    ELSE IF EndAt(bytes, offset) > Len(bytes) THEN NeedMore
    ELSE IF Complete(Held(bytes, offset, message)) THEN Said(Held(bytes, offset, message))
    ELSE g[EndAt(bytes, offset)][Held(bytes, offset, message)]

LEMMA RecordFacts ==
    ASSUME NEW bytes \in Bytes, NEW offset \in 0 .. Len(bytes), NEW message \in Bytes, HasRecord(bytes, offset)
    PROVE  /\ EndAt(bytes, offset) \in offset + 2 .. Len(bytes)
           /\ Held(bytes, offset, message) \in Bytes
           /\ Len(Held(bytes, offset, message)) = Len(message) + bytes[offset + 2]
           /\ bytes[offset + 2] \in Nat
<1>1. Len(bytes) \in Nat /\ Len(message) \in Nat /\ \A i \in 1 .. Len(bytes) : bytes[i] \in Nat
  BY DEF Bytes
<1>2. offset + 2 \in 1 .. Len(bytes) BY <1>1 DEF HasRecord, RecordHeader
<1>3. bytes[offset + 2] \in Nat BY <1>1, <1>2
<1>4. EndAt(bytes, offset) \in offset + 2 .. Len(bytes)
  BY <1>1, <1>3 DEF HasRecord, EndAt, RecordHeader
<1> DEFINE body == SubSeq(bytes, offset + RecordHeader + 1, EndAt(bytes, offset))
<1>5. \A i \in offset + RecordHeader + 1 .. EndAt(bytes, offset) : bytes[i] \in Nat
  BY <1>1, <1>4 DEF RecordHeader
<1>6. offset + RecordHeader + 1 \in Int /\ EndAt(bytes, offset) \in Int
  BY <1>1, <1>4 DEF RecordHeader
<1>7. body \in Seq(Nat) BY <1>5, <1>6, SubSeqProperties
<1>8. Len(body) = bytes[offset + 2]
  <2>1. Len(body) = IF offset + RecordHeader + 1 <= EndAt(bytes, offset)
                    THEN EndAt(bytes, offset) - (offset + RecordHeader + 1) + 1 ELSE 0
    BY <1>5, <1>6, SubSeqProperties
  <2> QED BY <1>1, <1>3, <2>1 DEF EndAt, RecordHeader
<1> HIDE DEF body
<1>9. message \o body \in Seq(Nat) /\ Len(message \o body) = Len(message) + Len(body)
  BY <1>7, ConcatProperties DEF Bytes
<1> QED BY <1>3, <1>4, <1>8, <1>9 DEF Held, Bytes, body

ReadsFrom(g, bytes, n) ==
    g = [offset \in Len(bytes) - n .. Len(bytes) |-> [message \in Bytes |-> HelloTurn(g, bytes, offset, message)]]

LEMMA ParsesExist ==
    ASSUME NEW bytes \in Bytes
    PROVE  \A n \in Nat : n <= Len(bytes) => \E g : ReadsFrom(g, bytes, n)
<1> DEFINE T == {n \in Nat : n <= Len(bytes) => \E g : ReadsFrom(g, bytes, n)}
           L == Len(bytes)
<1>0. L \in Nat BY DEF Bytes
<1>1. 0 \in T
  <2> DEFINE g == [offset \in L - 0 .. L |-> [message \in Bytes |-> NeedMore]]
  <2>1. ASSUME NEW offset \in L - 0 .. L, NEW message \in Bytes PROVE HelloTurn(g, bytes, offset, message) = NeedMore
    BY <1>0 DEF HelloTurn, RecordHeader
  <2> HIDE DEF g
  <2>2. [offset \in L - 0 .. L |-> [message \in Bytes |-> HelloTurn(g, bytes, offset, message)]]
          = [offset \in L - 0 .. L |-> [message \in Bytes |-> NeedMore]] BY <2>1
  <2>3. g = [offset \in L - 0 .. L |-> [message \in Bytes |-> HelloTurn(g, bytes, offset, message)]] BY <2>2 DEF g
  <2> QED BY <2>3 DEF ReadsFrom
<1>2. ASSUME NEW n \in T PROVE n + 1 \in T
  <2>0. SUFFICES ASSUME n + 1 <= L PROVE \E h : ReadsFrom(h, bytes, n + 1)
    OBVIOUS
  <2>1. n \in Nat /\ n <= L BY <1>0, <2>0
  <2>2. PICK g : ReadsFrom(g, bytes, n) BY <2>1
  <2> DEFINE h == [offset \in L - (n + 1) .. L |->
                     IF offset >= L - n THEN g[offset] ELSE [message \in Bytes |-> HelloTurn(g, bytes, offset, message)]]
  <2>3. g = [offset \in L - n .. L |-> [message \in Bytes |-> HelloTurn(g, bytes, offset, message)]]
    BY <2>2 DEF ReadsFrom
  <2> HIDE DEF L
  <2>4. ASSUME NEW offset \in L - (n + 1) .. L
        PROVE  h[offset] = [message \in Bytes |-> HelloTurn(h, bytes, offset, message)]
    <3>1. offset \in 0 .. L BY <1>0, <2>0, <2>1
    <3>2. ASSUME NEW message \in Bytes PROVE HelloTurn(h, bytes, offset, message) = HelloTurn(g, bytes, offset, message)
      <4>1. CASE HasRecord(bytes, offset)
        <5>1. EndAt(bytes, offset) \in offset + 2 .. L BY <3>1, <4>1, RecordFacts DEF L
        <5>2. EndAt(bytes, offset) \in L - (n + 1) .. L /\ EndAt(bytes, offset) >= L - n
          BY <1>0, <2>1, <3>1, <5>1
        <5>3. h[EndAt(bytes, offset)] = g[EndAt(bytes, offset)] BY <5>2
        <5> HIDE DEF h
        <5> QED BY <5>3 DEF HelloTurn
      <4>2. CASE ~HasRecord(bytes, offset)
        <5> HIDE DEF h
        <5>1. /\ Len(bytes) \in Nat /\ offset + RecordHeader \in Nat
              /\ offset + RecordHeader <= Len(bytes) => EndAt(bytes, offset) \in Nat
          <6>1. L = Len(bytes) BY DEF L
          <6>2. offset + 2 <= Len(bytes) => bytes[offset + 2] \in Nat BY <1>0, <3>1, <6>1 DEF Bytes
          <6> QED BY <1>0, <3>1, <6>1, <6>2 DEF EndAt, RecordHeader
        <5> QED BY <4>2, <5>1 DEF HelloTurn, HasRecord
      <4> QED BY <4>1, <4>2
    <3>3. CASE offset >= L - n
      <4>1. offset \in L - n .. L BY <1>0, <2>1, <3>1, <3>3
      <4>2. g[offset] = [message \in Bytes |-> HelloTurn(g, bytes, offset, message)] BY <2>3, <4>1
      <4>3. h[offset] = g[offset] BY <3>3
      <4> HIDE DEF h
      <4> QED BY <3>2, <4>2, <4>3
    <3>4. CASE ~(offset >= L - n)
      <4>1. h[offset] = [message \in Bytes |-> HelloTurn(g, bytes, offset, message)] BY <3>4
      <4> HIDE DEF h
      <4> QED BY <3>2, <4>1
    <3> QED BY <3>3, <3>4
  <2>5. h = [offset \in L - (n + 1) .. L |-> h[offset]] OBVIOUS
  <2> HIDE DEF h
  <2>6. h = [offset \in L - (n + 1) .. L |-> [message \in Bytes |-> HelloTurn(h, bytes, offset, message)]]
    BY <2>4, <2>5
  <2> QED BY <2>6 DEF ReadsFrom, L
<1>3. T \in SUBSET Nat OBVIOUS
<1> HIDE DEF T
<1>4. \A n \in Nat : n \in T BY <1>1, <1>2, <1>3, Counting
<1> QED BY <1>4 DEF T

(* A g that is what parse's loop computes. *)
Parses(g, bytes) ==
    \A offset \in 0 .. Len(bytes), message \in Bytes : g[offset][message] = HelloTurn(g, bytes, offset, message)

LEMMA ParseReads ==
    ASSUME NEW bytes \in Bytes
    PROVE  \E g : ParseRecords(bytes) = g[0][<<>>] /\ Parses(g, bytes)
<1>1. Len(bytes) \in Nat /\ Len(bytes) - Len(bytes) = 0 BY DEF Bytes
<1>2. PICK g0 : ReadsFrom(g0, bytes, Len(bytes)) BY <1>1, ParsesExist
<1> DEFINE Loop(g) == g = [offset \in 0 .. Len(bytes) |-> [message \in Bytes |-> HelloTurn(g, bytes, offset, message)]]
           chosen == CHOOSE g : Loop(g)
<1>3. Loop(g0) BY <1>1, <1>2 DEF ReadsFrom
<1>4. Loop(chosen)
  <2> HIDE DEF Loop
  <2> QED BY <1>3
<1>5. ParseRecords(bytes) = chosen[0][<<>>] BY DEF ParseRecords, HelloTurn, Held, EndAt, Said, Bytes
<1> HIDE DEF chosen
<1>6. Parses(chosen, bytes) BY <1>4 DEF Parses
<1> QED BY <1>5, <1>6

(* What is read does not depend on what is behind it. *)
LEMMA FirstBytes ==
    ASSUME NEW bytes \in Bytes, NEW u \in 0 .. Len(bytes)
    PROVE  /\ SubSeq(bytes, 1, u) \in Bytes /\ Len(SubSeq(bytes, 1, u)) = u
           /\ \A i \in 1 .. u : SubSeq(bytes, 1, u)[i] = bytes[i]
<1>1. Len(bytes) \in Nat /\ \A i \in 1 .. Len(bytes) : bytes[i] \in Nat BY DEF Bytes
<1>2. u \in Nat /\ \A i \in 1 .. u : bytes[i] \in Nat BY <1>1
<1>3. SubSeq(bytes, 1, u) \in Seq(Nat) BY <1>2, SubSeqProperties
<1>4. Len(SubSeq(bytes, 1, u)) = u BY <1>2, SubSeqProperties
<1>5. \A i \in 1 .. u : SubSeq(bytes, 1, u)[i] = bytes[i] BY <1>2, SubSeqProperties
<1> QED BY <1>3, <1>4, <1>5 DEF Bytes

LEMMA SameRecord ==
    ASSUME NEW bytes \in Bytes, NEW u \in 0 .. Len(bytes), NEW offset \in 0 .. u, NEW message \in Bytes,
           HasRecord(SubSeq(bytes, 1, u), offset)
    PROVE  /\ HasRecord(bytes, offset) /\ EndAt(bytes, offset) = EndAt(SubSeq(bytes, 1, u), offset)
           /\ Held(bytes, offset, message) = Held(SubSeq(bytes, 1, u), offset, message)
<1> DEFINE part == SubSeq(bytes, 1, u)
<1>1. /\ u \in Nat /\ Len(bytes) \in Nat /\ part \in Bytes /\ Len(part) = u
      /\ \A i \in 1 .. u : part[i] = bytes[i]
  BY FirstBytes DEF Bytes
<1>2. EndAt(part, offset) \in offset + 2 .. u /\ part[offset + 2] \in Nat BY <1>1, RecordFacts
<1>3. HasRecord(part, offset) OBVIOUS
<1> HIDE DEF part
<1>4. part[offset + 1] = bytes[offset + 1] /\ part[offset + 2] = bytes[offset + 2] BY <1>1, <1>2
<1>5. EndAt(bytes, offset) = EndAt(part, offset) BY <1>4 DEF EndAt
<1>6. HasRecord(bytes, offset) BY <1>1, <1>2, <1>3, <1>4, <1>5 DEF HasRecord, RecordHeader
<1> DEFINE from == offset + RecordHeader + 1
           end == EndAt(part, offset)
<1>7. from \in 1 .. u + 1 /\ end \in 0 .. u BY <1>1, <1>2, <1>3 DEF HasRecord, RecordHeader
<1> HIDE DEF from, end
<1>8. SubSeq(bytes, from, end) = SubSeq(part, from, end)
  <2>1. \A i \in from .. end : part[i] = bytes[i] BY <1>1, <1>7
  <2> QED BY <1>1, <1>7, <2>1 DEF Bytes
<1>9. Held(bytes, offset, message) = Held(part, offset, message) BY <1>5, <1>8 DEF Held, from, end
<1> QED BY <1>5, <1>6, <1>9 DEF part

(* What is told from the first bytes is told from all of them. *)
LEMMA MoreBytes ==
    ASSUME NEW bytes \in Bytes, NEW u \in 0 .. Len(bytes), NEW g, NEW whole,
           Parses(g, SubSeq(bytes, 1, u)), Parses(whole, bytes)
    PROVE  \A offset \in 0 .. u, message \in Bytes :
             g[offset][message] # NeedMore => whole[offset][message] = g[offset][message]
<1> DEFINE part == SubSeq(bytes, 1, u)
           Same(offset) == \A message \in Bytes :
                             g[offset][message] # NeedMore => whole[offset][message] = g[offset][message]
           T == {n \in Nat : \A offset \in 0 .. u : u - offset <= n => Same(offset)}
<1>0. u \in Nat /\ Len(bytes) \in Nat /\ part \in Bytes /\ Len(part) = u /\ \A i \in 1 .. u : part[i] = bytes[i]
  BY FirstBytes DEF Bytes
<1>1. ASSUME NEW offset \in 0 .. u,
             \A later \in 0 .. u : later > offset => Same(later)
      PROVE  Same(offset)
  <2> SUFFICES ASSUME NEW message \in Bytes, g[offset][message] # NeedMore
               PROVE  whole[offset][message] = g[offset][message]
    OBVIOUS
  <2> HIDE DEF part
  <2>1. g[offset][message] = HelloTurn(g, part, offset, message) BY <1>0 DEF Parses, part
  <2>2. whole[offset][message] = HelloTurn(whole, bytes, offset, message) BY <1>0 DEF Parses
  <2>3. CASE HasRecord(part, offset)
    <3>1. /\ HasRecord(bytes, offset) /\ EndAt(bytes, offset) = EndAt(part, offset)
          /\ Held(bytes, offset, message) = Held(part, offset, message)
      <4>1. HasRecord(SubSeq(bytes, 1, u), offset) BY <2>3 DEF part
      <4> QED BY <4>1, SameRecord DEF part
    <3>2. EndAt(part, offset) \in offset + 2 .. u /\ Held(part, offset, message) \in Bytes
      BY <1>0, <2>3, RecordFacts
    <3>3. EndAt(part, offset) \in 0 .. u /\ EndAt(part, offset) > offset BY <1>0, <3>2
    <3>4. CASE Complete(Held(part, offset, message))
      <4>1. g[offset][message] = Said(Held(part, offset, message))
        BY <1>0, <2>1, <2>3, <3>2, <3>4 DEF HelloTurn, HasRecord, RecordHeader
      <4>2. whole[offset][message] = Said(Held(part, offset, message))
        BY <1>0, <2>2, <3>1, <3>2, <3>4 DEF HelloTurn, HasRecord, RecordHeader
      <4> QED BY <4>1, <4>2
    <3>5. CASE ~Complete(Held(part, offset, message))
      <4>1. g[offset][message] = g[EndAt(part, offset)][Held(part, offset, message)]
        BY <1>0, <2>1, <2>3, <3>2, <3>5 DEF HelloTurn, HasRecord, RecordHeader
      <4>2. whole[offset][message] = whole[EndAt(part, offset)][Held(part, offset, message)]
        BY <1>0, <2>2, <3>1, <3>2, <3>5 DEF HelloTurn, HasRecord, RecordHeader
      <4>3. Same(EndAt(part, offset)) BY <1>1, <3>3
      <4> QED BY <3>2, <4>1, <4>2, <4>3
    <3> QED BY <3>4, <3>5
  <2>4. CASE ~HasRecord(part, offset)
    <3>0. offset + RecordHeader <= u => EndAt(part, offset) \in Nat
      <4>0. \A i \in 1 .. u : part[i] \in Nat BY <1>0 DEF Bytes
      <4>1. offset + 2 <= u => part[offset + 2] \in Nat BY <1>0, <4>0
      <4> QED BY <1>0, <4>1 DEF EndAt, RecordHeader
    <3>1. offset + RecordHeader <= u /\ part[offset + 1] # TlsHandshake /\ message = <<>>
      BY <1>0, <2>1, <2>4, <3>0 DEF HelloTurn, HasRecord, RecordHeader
    <3>2. bytes[offset + 1] = part[offset + 1] /\ offset + RecordHeader <= Len(bytes)
      BY <1>0, <3>1 DEF RecordHeader
    <3>3. HelloTurn(g, part, offset, message) = NotTls BY <1>0, <3>1 DEF HelloTurn, RecordHeader
    <3>4. HelloTurn(whole, bytes, offset, message) = NotTls BY <1>0, <3>1, <3>2 DEF HelloTurn, RecordHeader
    <3> QED BY <2>1, <2>2, <3>3, <3>4
  <2> QED BY <2>3, <2>4
<1> HIDE DEF Same
<1>2. 0 \in T
  <2>1. ASSUME NEW offset \in 0 .. u, u - offset <= 0 PROVE Same(offset)
    <3>1. offset = u BY <1>0, <2>1
    <3> QED BY <1>0, <1>1, <3>1
  <2> QED BY <2>1
<1>3. ASSUME NEW n \in T PROVE n + 1 \in T
  <2>1. n \in Nat OBVIOUS
  <2>2. ASSUME NEW offset \in 0 .. u, u - offset <= n + 1 PROVE Same(offset)
    <3>1. ASSUME NEW later \in 0 .. u, later > offset PROVE Same(later)
      <4>1. u - later <= n BY <1>0, <2>1, <2>2, <3>1
      <4> QED BY <4>1
    <3> QED BY <1>1, <3>1
  <2> QED BY <2>1, <2>2
<1>4. T \in SUBSET Nat OBVIOUS
<1> HIDE DEF T
<1>5. \A n \in Nat : n \in T BY <1>2, <1>3, <1>4, Counting
<1>6. \A offset \in 0 .. u : Same(offset)
  <2> TAKE offset \in 0 .. u
  <2>1. u \in T BY <1>0, <1>5
  <2>2. u - offset <= u BY <1>0
  <2> QED BY <2>1, <2>2 DEF T
<1> QED BY <1>6 DEF Same

(* Where the i-th of the records ends. *)
EndOf(ends, i) == IF i = 0 THEN 0 ELSE ends[i]

(* The first records of bytes, which end at these places, are records of the *)
(* handshake, and hold message; i of them hold ends[i] less i headers.     *)
CarriesAt(bytes, message, ends, i) ==
    /\ HasRecord(bytes, EndOf(ends, i - 1)) /\ ends[i] = EndAt(bytes, EndOf(ends, i - 1))
    /\ ends[i] - RecordHeader * i <= Len(message)
    /\ SubSeq(bytes, EndOf(ends, i - 1) + RecordHeader + 1, ends[i])
         = SubSeq(message, EndOf(ends, i - 1) - RecordHeader * (i - 1) + 1, ends[i] - RecordHeader * i)

Carries(bytes, message, ends) ==
    /\ Len(message) = EndOf(ends, Len(ends)) - RecordHeader * Len(ends)
    /\ \A i \in 1 .. Len(ends) : CarriesAt(bytes, message, ends, i)

(* The message is at least a ClientHello for name. *)
Asks(message, name) ==
    /\ Complete(message)
    /\ message[1] = HelloType /\ message[2] # 0 /\ message[MessageHeader + 1] = name

(* The first size bytes are the records of a ClientHello for name. *)
IsHello(bytes, size, name) ==
    \E message \in Bytes, ends \in Seq(Nat) :
      Carries(bytes, message, ends) /\ Asks(message, name) /\ size = EndOf(ends, Len(ends))

LEMMA EndsFacts ==
    ASSUME NEW bytes \in Bytes, NEW message \in Bytes, NEW ends \in Seq(Nat), Carries(bytes, message, ends),
           NEW i \in 0 .. Len(ends)
    PROVE  /\ EndOf(ends, i) \in 0 .. Len(bytes)
           /\ EndOf(ends, i) - RecordHeader * i \in 0 .. Len(message)
<1> DEFINE Fits(k) == EndOf(ends, k) \in 0 .. Len(bytes) /\ EndOf(ends, k) - 2 * k >= 0
           T == {k \in Nat : k <= Len(ends) => Fits(k)}
<1>0. /\ Len(bytes) \in Nat /\ Len(message) \in Nat /\ Len(ends) \in Nat /\ i \in Nat /\ i <= Len(ends)
      /\ \A k \in 1 .. Len(ends) : ends[k] \in Nat
  BY DEF Bytes
<1>1. 0 \in T BY <1>0 DEF EndOf
<1>2. ASSUME NEW k \in T PROVE k + 1 \in T
  <2>1. SUFFICES ASSUME k + 1 <= Len(ends) PROVE Fits(k + 1)
    OBVIOUS
  <2>2. k \in Nat /\ k + 1 \in 1 .. Len(ends) /\ k + 1 # 0 /\ (k + 1) - 1 = k BY <1>0, <2>1
  <2>3. Fits(k) BY <1>0, <2>1
  <2>4. HasRecord(bytes, EndOf(ends, k)) /\ ends[k + 1] = EndAt(bytes, EndOf(ends, k))
    <3>1. CarriesAt(bytes, message, ends, k + 1) BY <2>2 DEF Carries
    <3> QED BY <2>2, <3>1 DEF CarriesAt
  <2>5. EndAt(bytes, EndOf(ends, k)) \in EndOf(ends, k) + 2 .. Len(bytes) BY <2>3, <2>4, RecordFacts
  <2>6. EndOf(ends, k + 1) = ends[k + 1] BY <2>2 DEF EndOf
  <2>7. /\ EndOf(ends, k) \in Nat /\ EndOf(ends, k) - 2 * k >= 0
        /\ EndOf(ends, k + 1) \in EndOf(ends, k) + 2 .. Len(bytes)
    BY <1>0, <2>3, <2>4, <2>5, <2>6
  <2>8. EndOf(ends, k + 1) \in 0 .. Len(bytes) BY <1>0, <2>7
  <2>9. EndOf(ends, k + 1) - 2 * (k + 1) >= 0 BY <1>0, <2>2, <2>7
  <2> QED BY <2>8, <2>9
<1>3. T \in SUBSET Nat OBVIOUS
<1> HIDE DEF T
<1>4. \A k \in Nat : k \in T BY <1>1, <1>2, <1>3, Counting
<1>5. Fits(i) BY <1>0, <1>4 DEF T
<1>6. EndOf(ends, i) - 2 * i <= Len(message)
  <2>1. CASE i = 0 BY <1>0, <2>1 DEF EndOf
  <2>2. CASE i # 0
    <3>1. i \in 1 .. Len(ends) BY <1>0, <2>2
    <3>2. CarriesAt(bytes, message, ends, i) BY <3>1 DEF Carries
    <3> QED BY <2>2, <3>2 DEF CarriesAt, RecordHeader, EndOf
  <2> QED BY <2>1, <2>2
<1> QED BY <1>0, <1>5, <1>6 DEF RecordHeader

(* What the first i records hold. *)
HeldBy(message, ends, i) == SubSeq(message, 1, EndOf(ends, i) - RecordHeader * i)

LEMMA NextHeld ==
    ASSUME NEW bytes \in Bytes, NEW message \in Bytes, NEW ends \in Seq(Nat), Carries(bytes, message, ends),
           NEW i \in 0 .. Len(ends) - 1
    PROVE  /\ HasRecord(bytes, EndOf(ends, i)) /\ EndOf(ends, i + 1) = EndAt(bytes, EndOf(ends, i))
           /\ Held(bytes, EndOf(ends, i), HeldBy(message, ends, i)) = HeldBy(message, ends, i + 1)
<1>0. /\ Len(message) \in Nat /\ Len(ends) \in Nat /\ i \in Nat
      /\ i + 1 \in 1 .. Len(ends) /\ i + 1 # 0 /\ (i + 1) - 1 = i /\ i \in 0 .. Len(ends) /\ i + 1 \in 0 .. Len(ends)
  BY DEF Bytes
<1>1. CarriesAt(bytes, message, ends, i + 1) BY <1>0 DEF Carries
<1>2. EndOf(ends, i + 1) = ends[i + 1] BY <1>0 DEF EndOf
<1>3. HasRecord(bytes, EndOf(ends, i)) /\ EndOf(ends, i + 1) = EndAt(bytes, EndOf(ends, i))
  BY <1>0, <1>1, <1>2 DEF CarriesAt
<1> DEFINE a == EndOf(ends, i) - RecordHeader * i
           b == EndOf(ends, i + 1) - RecordHeader * (i + 1)
<1>4. SubSeq(bytes, EndOf(ends, i) + RecordHeader + 1, EndAt(bytes, EndOf(ends, i))) = SubSeq(message, a + 1, b)
  BY <1>0, <1>1, <1>2, <1>3 DEF CarriesAt
<1>5. a \in 0 .. Len(message) /\ EndOf(ends, i) \in 0 .. Len(bytes) BY <1>0, EndsFacts
<1>6. b \in 0 .. Len(message) BY <1>0, EndsFacts
<1>7. a <= b
  <2>1. EndAt(bytes, EndOf(ends, i)) \in EndOf(ends, i) + 2 .. Len(bytes) BY <1>3, <1>5, RecordFacts
  <2> QED BY <1>0, <1>3, <1>5, <2>1 DEF RecordHeader, Bytes
<1> HIDE DEF a, b
<1>8. SubSeq(message, 1, a) \o SubSeq(message, a + 1, b) = SubSeq(message, 1, b)
  <2>1. 1 \in 1 .. Len(message) + 1 /\ a \in 1 - 1 .. Len(message) /\ b \in a .. Len(message) BY <1>0, <1>5, <1>6, <1>7
  <2> QED BY <2>1, ConcatAdjacentSubSeq DEF Bytes
<1>9. HeldBy(message, ends, i) = SubSeq(message, 1, a) /\ HeldBy(message, ends, i + 1) = SubSeq(message, 1, b)
  BY DEF HeldBy, a, b
<1>10. Held(bytes, EndOf(ends, i), HeldBy(message, ends, i)) = HeldBy(message, ends, i + 1)
  BY <1>4, <1>8, <1>9 DEF Held
<1> QED BY <1>3, <1>10

LEMMA CompleteSays ==
    ASSUME NEW message \in Bytes, NEW name, Asks(message, name), NEW a \in 0 .. Len(message),
           Complete(SubSeq(message, 1, a))
    PROVE  Said(SubSeq(message, 1, a)) = name
<1> DEFINE part == SubSeq(message, 1, a)
<1>1. /\ Len(message) \in Nat /\ part \in Bytes /\ Len(part) = a /\ \A i \in 1 .. a : part[i] = message[i]
  BY FirstBytes DEF Bytes
<1>2. Complete(part) OBVIOUS
<1> HIDE DEF part
<1>3. a >= 2 /\ part[1] = HelloType /\ part[2] = message[2] /\ message[2] \in Nat /\ message[2] # 0
  <2>1. a >= 2 BY <1>1, <1>2 DEF Complete, MessageHeader
  <2>2. part[1] = message[1] /\ part[2] = message[2] BY <1>1, <2>1
  <2>3. \A i \in 1 .. Len(message) : message[i] \in Nat BY DEF Bytes
  <2>4. message[2] \in Nat BY <1>1, <2>1, <2>3
  <2> QED BY <2>1, <2>2, <2>4 DEF Asks
<1>4. a >= message[2] + 2 BY <1>1, <1>2, <1>3 DEF Complete, MessageHeader
<1>5. part[3] = name BY <1>1, <1>3, <1>4 DEF Asks, MessageHeader
<1>6. message[2] + 2 \in 0 .. Len(part) BY <1>1, <1>3, <1>4
<1>7. /\ Len(SubSeq(part, 1, message[2] + 2)) = message[2] + 2
      /\ \A i \in 1 .. message[2] + 2 : SubSeq(part, 1, message[2] + 2)[i] = part[i]
  BY <1>1, <1>6, FirstBytes
<1>8. 1 \in 1 .. message[2] + 2 /\ 3 \in 1 .. message[2] + 2 /\ message[2] + 2 # 2 BY <1>3
<1>9. ParseHandshake(SubSeq(part, 1, message[2] + 2)) = name
  BY <1>3, <1>5, <1>7, <1>8 DEF ParseHandshake, MessageHeader
<1> QED BY <1>3, <1>9 DEF Said, MessageHeader, part

(* However its message is cut into records, a ClientHello says its name. *)
LEMMA HelloSays ==
    ASSUME NEW bytes \in Bytes, NEW size, NEW name, IsHello(bytes, size, name)
    PROVE  Parse(bytes) = name
<1>1. PICK message \in Bytes, ends \in Seq(Nat) : Carries(bytes, message, ends) /\ Asks(message, name)
  BY DEF IsHello
<1>2. PICK g : ParseRecords(bytes) = g[0][<<>>] /\ Parses(g, bytes) BY ParseReads
<1> DEFINE At(i) == HeldBy(message, ends, i)
           Comes(i) == \/ g[0][<<>>] = name
                       \/ g[0][<<>>] = g[EndOf(ends, i)][At(i)] /\ ~Complete(At(i))
           T == {i \in Nat : i <= Len(ends) => Comes(i)}
<1>3. Len(bytes) \in Nat /\ Len(message) \in Nat /\ Len(ends) \in Nat BY DEF Bytes
<1>4. EndOf(ends, 0) = 0 /\ At(0) = <<>> /\ ~Complete(<<>>)
  <2>1. EndOf(ends, 0) - RecordHeader * 0 = 0 BY DEF EndOf, RecordHeader
  <2>2. SubSeq(message, 1, 0) = <<>> BY SubSeqEmpty
  <2>3. ~Complete(<<>>) BY DEF Complete, MessageHeader
  <2> QED BY <2>1, <2>2, <2>3 DEF HeldBy, EndOf
<1>5. 0 \in T BY <1>4
<1>6. ASSUME NEW i \in T PROVE i + 1 \in T
  <2> SUFFICES ASSUME i + 1 <= Len(ends) PROVE Comes(i + 1)
    OBVIOUS
  <2>0. g[0][<<>>] = name => Comes(i + 1) OBVIOUS
  <2> SUFFICES ASSUME g[0][<<>>] # name PROVE Comes(i + 1)
    BY <2>0
  <2>1. i + 1 <= Len(ends) /\ g[0][<<>>] # name OBVIOUS
  <2>2. i \in Nat /\ i \in 0 .. Len(ends) - 1 /\ i \in 0 .. Len(ends) /\ i + 1 \in 0 .. Len(ends) BY <1>3, <2>1
  <2>3. g[0][<<>>] = g[EndOf(ends, i)][At(i)] /\ ~Complete(At(i)) BY <1>3, <2>1, <2>2
  <2>4. /\ HasRecord(bytes, EndOf(ends, i)) /\ EndOf(ends, i + 1) = EndAt(bytes, EndOf(ends, i))
        /\ Held(bytes, EndOf(ends, i), At(i)) = At(i + 1)
    BY <1>1, <2>2, NextHeld
  <2>5. EndOf(ends, i) \in 0 .. Len(bytes) /\ EndOf(ends, i) - RecordHeader * i \in 0 .. Len(message)
    BY <1>1, <2>2, EndsFacts
  <2>6. EndOf(ends, i + 1) \in 0 .. Len(bytes) /\ EndOf(ends, i + 1) - RecordHeader * (i + 1) \in 0 .. Len(message)
    BY <1>1, <2>2, EndsFacts
  <2>7. At(i) \in Bytes BY <2>5, FirstBytes DEF HeldBy
  <2> HIDE DEF At
  <2>8. g[EndOf(ends, i)][At(i)] = HelloTurn(g, bytes, EndOf(ends, i), At(i)) BY <1>2, <2>5, <2>7 DEF Parses
  <2>9. HelloTurn(g, bytes, EndOf(ends, i), At(i)) =
          IF Complete(At(i + 1)) THEN Said(At(i + 1)) ELSE g[EndOf(ends, i + 1)][At(i + 1)]
    <3>1. /\ ~(EndOf(ends, i) + RecordHeader > Len(bytes)) /\ bytes[EndOf(ends, i) + 1] = TlsHandshake
          /\ ~(EndOf(ends, i + 1) > Len(bytes))
      <4>1. EndOf(ends, i) + 2 <= Len(bytes) /\ bytes[EndOf(ends, i) + 1] = TlsHandshake
        BY <2>4 DEF HasRecord, RecordHeader
      <4>2. EndOf(ends, i) \in 0 .. Len(bytes) /\ EndOf(ends, i + 1) \in 0 .. Len(bytes) BY <2>5, <2>6
      <4>3. EndOf(ends, i) + RecordHeader = EndOf(ends, i) + 2 BY DEF RecordHeader
      <4> QED BY <1>3, <4>1, <4>2, <4>3
    <3> QED BY <2>4, <3>1 DEF HelloTurn
  <2>10. Complete(At(i + 1)) => Said(At(i + 1)) = name BY <1>1, <2>6, CompleteSays DEF At, HeldBy
  <2> QED BY <2>1, <2>3, <2>8, <2>9, <2>10
<1>7. T \in SUBSET Nat OBVIOUS
<1> HIDE DEF T
<1>8. Comes(Len(ends))
  <2>1. Len(ends) \in T BY <1>3, <1>5, <1>6, <1>7, Counting
  <2> HIDE DEF Comes
  <2> QED BY <1>3, <2>1 DEF T
<1>9. At(Len(ends)) = message
  BY <1>1, SubSeqFull DEF HeldBy, Carries, Bytes
<1>10. ParseRecords(bytes) = name BY <1>1, <1>2, <1>8, <1>9 DEF Asks
<1>11. HasRecord(bytes, 0)
  <2>1. Len(ends) # 0 BY <1>1, <1>3, <1>4 DEF Carries, Asks, Complete, MessageHeader, RecordHeader
  <2>2. 0 \in 0 .. Len(ends) - 1 BY <1>3, <2>1
  <2> QED BY <1>1, <1>4, <2>2, NextHeld
<1> QED BY <1>3, <1>10, <1>11 DEF Parse, HasRecord, RecordHeader

LEMMA InFront ==
    ASSUME NEW s \in Bytes, NEW t \in Bytes, NEW a \in Nat, NEW b \in Nat, a >= 1, b <= Len(s)
    PROVE  SubSeq(s \o t, a, b) = SubSeq(s, a, b)
<1>1. Len(s) \in Nat BY DEF Bytes
<1>2. CASE a <= b
  <2>1. a \in 1 .. Len(s) /\ b \in 1 .. Len(s) BY <1>1, <1>2
  <2> QED BY <2>1, SubSeqOfConcat1 DEF Bytes
<1>3. CASE b < a BY <1>3, SubSeqEmpty
<1> QED BY <1>2, <1>3

LEMMA Behind ==
    ASSUME NEW s \in Bytes, NEW t \in Bytes
    PROVE  SubSeq(s \o t, Len(s) + 1, Len(s) + Len(t)) = t
<1>1. Len(s) \in Nat /\ Len(t) \in Nat BY DEF Bytes
<1>2. CASE Len(t) > 0
  <2>1. Len(s) + 1 \in Len(s) + 1 .. Len(s) + Len(t) /\ Len(s) + Len(t) \in Len(s) + 1 .. Len(s) + Len(t)
    BY <1>1, <1>2
  <2>2. SubSeq(s \o t, Len(s) + 1, Len(s) + Len(t)) = SubSeq(t, (Len(s) + 1) - Len(s), (Len(s) + Len(t)) - Len(s))
    BY <2>1, SubSeqOfConcat2 DEF Bytes
  <2>3. (Len(s) + 1) - Len(s) = 1 /\ (Len(s) + Len(t)) - Len(s) = Len(t) BY <1>1
  <2> QED BY <2>2, <2>3, SubSeqFull DEF Bytes
<1>3. CASE Len(t) = 0
  <2>1. t = <<>> BY <1>3, EmptySeq DEF Bytes
  <2>2. Len(s) + Len(t) < Len(s) + 1 /\ Len(s) + 1 \in Int /\ Len(s) + Len(t) \in Int BY <1>1, <1>3
  <2> QED BY <2>1, <2>2, SubSeqEmpty
<1> QED BY <1>1, <1>2, <1>3

LEMMA OneMoreRecord ==
    ASSUME NEW bytes \in Bytes, NEW message \in Bytes, NEW ends \in Seq(Nat), Carries(bytes, message, ends),
           HasRecord(bytes, EndOf(ends, Len(ends)))
    PROVE  LET last == EndOf(ends, Len(ends))
           IN  /\ Append(ends, EndAt(bytes, last)) \in Seq(Nat)
               /\ Len(Append(ends, EndAt(bytes, last))) = Len(ends) + 1
               /\ EndOf(Append(ends, EndAt(bytes, last)), Len(ends) + 1) = EndAt(bytes, last)
               /\ Carries(bytes, Held(bytes, last, message), Append(ends, EndAt(bytes, last)))
<1> DEFINE last == EndOf(ends, Len(ends))
           end == EndAt(bytes, last)
           longer == Held(bytes, last, message)
           more == Append(ends, end)
           body == SubSeq(bytes, last + RecordHeader + 1, end)
<1>0. Len(ends) \in Nat /\ Len(message) \in Nat /\ Len(bytes) \in Nat /\ Len(ends) \in 0 .. Len(ends) BY DEF Bytes
<1>1. last \in 0 .. Len(bytes) BY <1>0, EndsFacts
<1>2. /\ end \in last + 2 .. Len(bytes) /\ longer \in Bytes
      /\ Len(longer) = Len(message) + bytes[last + 2] /\ bytes[last + 2] \in Nat
  BY <1>1, RecordFacts
<1>3. HasRecord(bytes, last) OBVIOUS
<1>4. end = last + 2 + bytes[last + 2] BY DEF EndAt, RecordHeader
<1>5. longer = message \o body BY DEF Held
<1>6. body \in Bytes /\ Len(body) = bytes[last + 2]
  <2>1. last + 3 \in 1 .. Len(bytes) + 1 /\ last + 3 \in Int /\ end \in Int BY <1>0, <1>1, <1>2, <1>3 DEF HasRecord, RecordHeader
  <2>2. \A i \in last + 3 .. end : bytes[i] \in Nat
    <3>1. \A i \in 1 .. Len(bytes) : bytes[i] \in Nat BY DEF Bytes
    <3> QED BY <1>0, <1>1, <1>2, <3>1
  <2>3. SubSeq(bytes, last + 3, end) \in Seq(Nat) BY <2>1, <2>2, SubSeqProperties
  <2>4. Len(SubSeq(bytes, last + 3, end)) = IF last + 3 <= end THEN end - (last + 3) + 1 ELSE 0
    BY <2>1, <2>2, SubSeqProperties
  <2>5. body = SubSeq(bytes, last + 3, end)
    <3>1. last + RecordHeader + 1 = last + 3 BY <1>0, <1>1 DEF RecordHeader
    <3> QED BY <3>1
  <2>6. last \in Nat /\ bytes[last + 2] \in Nat BY <1>0, <1>1, <1>2
  <2> HIDE DEF body, last, end
  <2>7. Len(body) = bytes[last + 2] BY <1>4, <2>4, <2>5, <2>6
  <2> QED BY <2>3, <2>5, <2>7 DEF Bytes
<1>7. end \in Nat BY <1>0, <1>1, <1>2
<1>8. /\ more \in Seq(Nat) /\ Len(more) = Len(ends) + 1
      /\ \A i \in 1 .. Len(ends) : more[i] = ends[i]
      /\ more[Len(ends) + 1] = end
  <2> HIDE DEF end
  <2> QED BY <1>7, AppendProperties
<1>9. Len(message) = last - 2 * Len(ends) BY DEF Carries, RecordHeader
<1> HIDE DEF last, end, longer, more, body
<1>10. EndOf(more, Len(ends) + 1) = end /\ \A i \in 0 .. Len(ends) : EndOf(more, i) = EndOf(ends, i)
  BY <1>0, <1>8 DEF EndOf
<1>11. Len(longer) = end - 2 * (Len(ends) + 1)
  <2>1. last \in Nat /\ bytes[last + 2] \in Nat /\ Len(ends) \in Nat BY <1>0, <1>1, <1>2
  <2>2. Len(longer) = Len(message) + bytes[last + 2] BY <1>2
  <2>3. \A l, n, k \in Nat : (l - 2 * k) + n = (l + 2 + n) - 2 * (k + 1) OBVIOUS
  <2>4. Len(longer) = (last - 2 * Len(ends)) + bytes[last + 2] BY <1>9, <2>2
  <2>5. (last - 2 * Len(ends)) + bytes[last + 2] = (last + 2 + bytes[last + 2]) - 2 * (Len(ends) + 1) BY <2>1, <2>3
  <2> QED BY <1>4, <2>4, <2>5
<1>12. ASSUME NEW i \in 1 .. Len(ends) PROVE CarriesAt(bytes, longer, more, i)
  <2>1. i - 1 \in 0 .. Len(ends) /\ i \in 0 .. Len(ends) /\ i # 0 BY <1>0
  <2>2. EndOf(more, i - 1) = EndOf(ends, i - 1) /\ more[i] = ends[i] BY <1>8, <1>10, <2>1
  <2>3. CarriesAt(bytes, message, ends, i) BY DEF Carries
  <2>4. EndOf(ends, i - 1) - RecordHeader * (i - 1) \in 0 .. Len(message) BY <2>1, EndsFacts
  <2>5. ends[i] - RecordHeader * i \in 0 .. Len(message)
    <3>1. EndOf(ends, i) - RecordHeader * i \in 0 .. Len(message) BY <2>1, EndsFacts
    <3> QED BY <2>1, <3>1 DEF EndOf
  <2> DEFINE a == EndOf(ends, i - 1) - RecordHeader * (i - 1) + 1
             b == ends[i] - RecordHeader * i
  <2>6. a \in Nat /\ a >= 1 /\ b \in Nat /\ b <= Len(message) /\ b <= Len(longer)
    <3>1. a \in Nat /\ a >= 1 BY <1>0, <2>4
    <3>2. b \in Nat /\ b <= Len(message) BY <1>0, <2>5
    <3>3. Len(message) <= Len(longer) /\ Len(longer) \in Nat
      <4>1. bytes[last + 2] \in Nat /\ Len(longer) = Len(message) + bytes[last + 2] BY <1>2
      <4> QED BY <1>0, <4>1
    <3> HIDE DEF a, b
    <3>4. b <= Len(longer) BY <1>0, <3>2, <3>3
    <3> QED BY <3>1, <3>2, <3>4
  <2>7. SubSeq(longer, a, b) = SubSeq(message, a, b)
    <3> HIDE DEF a, b
    <3> QED BY <1>5, <1>6, <2>6, InFront
  <2> QED BY <2>2, <2>3, <2>6, <2>7 DEF CarriesAt
<1>13. CarriesAt(bytes, longer, more, Len(ends) + 1)
  <2>1. (Len(ends) + 1) - 1 = Len(ends) /\ EndOf(more, Len(ends)) = last BY <1>0, <1>10 DEF last
  <2>2. SubSeq(longer, Len(message) + 1, Len(message) + Len(body)) = body BY <1>5, <1>6, Behind
  <2>3. /\ last - RecordHeader * Len(ends) + 1 = Len(message) + 1
        /\ end - RecordHeader * (Len(ends) + 1) = Len(message) + Len(body)
        /\ Len(message) + Len(body) <= Len(longer)
    <3>1. last \in Nat /\ Len(ends) \in Nat /\ bytes[last + 2] \in Nat BY <1>0, <1>1, <1>2
    <3>2. last - RecordHeader * Len(ends) + 1 = Len(message) + 1 BY <1>9 DEF RecordHeader
    <3>3. \A l, n, k \in Nat : (l + 2 + n) - 2 * (k + 1) = (l - 2 * k) + n OBVIOUS
    <3>4. (last + 2 + bytes[last + 2]) - 2 * (Len(ends) + 1) = (last - 2 * Len(ends)) + bytes[last + 2]
      BY <3>1, <3>3
    <3>5. end - RecordHeader * (Len(ends) + 1) = Len(message) + Len(body)
      BY <1>4, <1>6, <1>9, <3>4 DEF RecordHeader
    <3>6. Len(message) + Len(body) = Len(longer) BY <1>2, <1>6
    <3>7. Len(longer) \in Nat BY <1>0, <3>1, <1>2
    <3> QED BY <3>2, <3>5, <3>6, <3>7
  <2>4. end = EndAt(bytes, last) BY DEF end
  <2> QED BY <1>3, <1>8, <2>1, <2>2, <2>3, <2>4 DEF CarriesAt, body
<1>14. Carries(bytes, longer, more)
  <2>1. \A i \in 1 .. Len(more) : CarriesAt(bytes, longer, more, i)
    <3> TAKE i \in 1 .. Len(more)
    <3>1. i \in 1 .. Len(ends) \/ i = Len(ends) + 1 BY <1>0, <1>8
    <3> QED BY <1>12, <1>13, <3>1
  <2>2. Len(longer) = EndOf(more, Len(more)) - RecordHeader * Len(more) BY <1>8, <1>10, <1>11 DEF RecordHeader
  <2> QED BY <2>1, <2>2 DEF Carries
<1> QED BY <1>8, <1>10, <1>14 DEF last, end, longer, more

(* A name that is told is one that was asked for. *)
LEMMA SaidIsAsked ==
    ASSUME NEW message \in Bytes, Complete(message), Said(message) \notin {NeedMore, NotTls}
    PROVE  Asks(message, Said(message))
<1>1. Len(message) \in Nat /\ \A i \in 1 .. Len(message) : message[i] \in Nat BY DEF Bytes
<1>2. Len(message) >= 2 /\ Len(message) >= message[2] + 2 BY DEF Complete, MessageHeader
<1>3. message[2] \in Nat BY <1>1, <1>2
<1>4. message[2] + 2 \in 0 .. Len(message) BY <1>1, <1>2, <1>3
<1> DEFINE part == SubSeq(message, 1, message[2] + 2)
<1>5. Len(part) = message[2] + 2 /\ \A i \in 1 .. message[2] + 2 : part[i] = message[i] BY <1>4, FirstBytes
<1>6. Said(message) = ParseHandshake(part) BY DEF Said, MessageHeader
<1> HIDE DEF part
<1>7. part[1] = HelloType /\ Len(part) # MessageHeader /\ Said(message) = part[MessageHeader + 1]
  BY <1>6 DEF ParseHandshake
<1>8. part[1] = message[1] BY <1>3, <1>5
<1>9. message[2] # 0 BY <1>5, <1>7 DEF MessageHeader
<1>10. part[3] = message[3] BY <1>3, <1>5, <1>9
<1> QED BY <1>7, <1>8, <1>9, <1>10 DEF Asks, MessageHeader

LEMMA LoopSaysHello ==
    ASSUME NEW bytes \in Bytes, NEW g, Parses(g, bytes)
    PROVE  \A offset \in 0 .. Len(bytes) : \A message \in Bytes, ends \in Seq(Nat) :
             /\ Carries(bytes, message, ends) /\ offset = EndOf(ends, Len(ends))
             /\ g[offset][message] \notin {NeedMore, NotTls}
             => \E size \in Nat : IsHello(bytes, size, g[offset][message])
<1> DEFINE L == Len(bytes)
           Right(offset) == \A message \in Bytes, ends \in Seq(Nat) :
             /\ Carries(bytes, message, ends) /\ offset = EndOf(ends, Len(ends))
             /\ g[offset][message] \notin {NeedMore, NotTls}
             => \E size \in Nat : IsHello(bytes, size, g[offset][message])
           T == {n \in Nat : \A offset \in 0 .. L : L - offset <= n => Right(offset)}
<1>0. L \in Nat BY DEF Bytes
<1>1. ASSUME NEW offset \in 0 .. L, \A later \in 0 .. L : later > offset => Right(later) PROVE Right(offset)
  <2> SUFFICES ASSUME NEW message \in Bytes, NEW ends \in Seq(Nat),
                      Carries(bytes, message, ends), offset = EndOf(ends, Len(ends)),
                      g[offset][message] \notin {NeedMore, NotTls}
               PROVE  \E size \in Nat : IsHello(bytes, size, g[offset][message])
    OBVIOUS
  <2>1. g[offset][message] = HelloTurn(g, bytes, offset, message) BY DEF Parses
  <2>2. HasRecord(bytes, offset)
    <3>1. offset + RecordHeader <= Len(bytes) => EndAt(bytes, offset) \in Nat
      <4>1. offset + 2 <= L => bytes[offset + 2] \in Nat BY <1>0 DEF Bytes
      <4> QED BY <1>0, <4>1 DEF EndAt, RecordHeader
    <3> QED BY <1>0, <2>1, <3>1 DEF HelloTurn, HasRecord, RecordHeader
  <2> DEFINE end == EndAt(bytes, offset)
             longer == Held(bytes, offset, message)
             more == Append(ends, end)
  <2>3. end \in offset + 2 .. L /\ longer \in Bytes BY <2>2, RecordFacts
  <2>4. more \in Seq(Nat) /\ Len(more) = Len(ends) + 1 /\ EndOf(more, Len(ends) + 1) = end /\ Carries(bytes, longer, more)
    BY <2>2, OneMoreRecord
  <2>5. end = EndOf(more, Len(more)) BY <2>4
  <2>6. g[offset][message] = IF Complete(longer) THEN Said(longer) ELSE g[end][longer]
    BY <1>0, <2>1, <2>2, <2>3 DEF HelloTurn, HasRecord, RecordHeader
  <2> HIDE DEF longer, more, end
  <2>7. CASE Complete(longer)
    <3>1. Asks(longer, g[offset][message]) BY <2>3, <2>6, <2>7, SaidIsAsked
    <3>2. IsHello(bytes, end, g[offset][message]) BY <2>3, <2>4, <2>5, <3>1 DEF IsHello
    <3>3. end \in Nat BY <1>0, <2>3
    <3> QED BY <3>2, <3>3
  <2>8. CASE ~Complete(longer)
    <3>1. end \in 0 .. L /\ end > offset BY <1>0, <2>3
    <3>2. Right(end) BY <1>1, <3>1
    <3>3. g[offset][message] = g[end][longer] BY <2>6, <2>8
    <3> QED BY <2>3, <2>4, <2>5, <3>2, <3>3
  <2> QED BY <2>7, <2>8
<1> HIDE DEF Right
<1>2. 0 \in T
  <2>1. ASSUME NEW offset \in 0 .. L, L - offset <= 0 PROVE Right(offset)
    <3>1. offset = L BY <1>0, <2>1
    <3> QED BY <1>0, <1>1, <3>1
  <2> QED BY <2>1
<1>3. ASSUME NEW n \in T PROVE n + 1 \in T
  <2>1. n \in Nat OBVIOUS
  <2>2. ASSUME NEW offset \in 0 .. L, L - offset <= n + 1 PROVE Right(offset)
    <3>1. ASSUME NEW later \in 0 .. L, later > offset PROVE Right(later)
      <4>1. L - later <= n BY <1>0, <2>1, <2>2, <3>1
      <4> QED BY <4>1
    <3> QED BY <1>1, <3>1
  <2> QED BY <2>1, <2>2
<1>4. T \in SUBSET Nat OBVIOUS
<1> HIDE DEF T
<1>5. \A n \in Nat : n \in T BY <1>2, <1>3, <1>4, Counting
<1>6. \A offset \in 0 .. L : Right(offset)
  <2> TAKE offset \in 0 .. L
  <2>1. L \in T BY <1>0, <1>5
  <2>2. L - offset <= L BY <1>0
  <2> QED BY <2>1, <2>2 DEF T
<1> QED BY <1>6 DEF Right

(* What is taken for a ClientHello is one. *)
LEMMA OnlyHelloSays ==
    ASSUME NEW bytes \in Bytes, Parse(bytes) \notin {NeedMore, NotTls}
    PROVE  \E size \in Nat : IsHello(bytes, size, Parse(bytes))
<1>1. PICK g : ParseRecords(bytes) = g[0][<<>>] /\ Parses(g, bytes) BY ParseReads
<1>2. Parse(bytes) = g[0][<<>>] BY <1>1 DEF Parse
<1>3. Carries(bytes, <<>>, <<>>) /\ EndOf(<<>>, Len(<<>>)) = 0
  <2>1. Len(<<>>) = 0 BY EmptySeq
  <2>2. EndOf(<<>>, 0) - RecordHeader * 0 = 0 BY DEF EndOf, RecordHeader
  <2>3. \A i \in 1 .. Len(<<>>) : CarriesAt(bytes, <<>>, <<>>, i) BY <2>1
  <2> QED BY <2>1, <2>2, <2>3 DEF Carries, EndOf
<1>4. 0 \in 0 .. Len(bytes) /\ <<>> \in Bytes /\ <<>> \in Seq(Nat) BY DEF Bytes
<1>5. g[0][<<>>] \notin {NeedMore, NotTls} BY <1>2
<1>6. \E size \in Nat : IsHello(bytes, size, g[0][<<>>])
  <2>1. \A message \in Bytes, ends \in Seq(Nat) :
          /\ Carries(bytes, message, ends) /\ 0 = EndOf(ends, Len(ends))
          /\ g[0][message] \notin {NeedMore, NotTls}
          => \E size \in Nat : IsHello(bytes, size, g[0][message])
    BY <1>1, <1>4, LoopSaysHello
  <2> DEFINE none == <<>>
  <2>2. none \in Bytes /\ none \in Seq(Nat) /\ Carries(bytes, none, none) /\ 0 = EndOf(none, Len(none))
        /\ g[0][none] \notin {NeedMore, NotTls}
    BY <1>3, <1>4, <1>5
  <2> HIDE DEF none
  <2>3. \E size \in Nat : IsHello(bytes, size, g[0][none]) BY <2>1, <2>2
  <2> QED BY <2>3 DEF none
<1> QED BY <1>2, <1>6

LEMMA MoreBytesAgree ==
    ASSUME NEW bytes \in Bytes, NEW u \in 0 .. Len(bytes), Parse(SubSeq(bytes, 1, u)) # NeedMore
    PROVE  Parse(bytes) = Parse(SubSeq(bytes, 1, u))
<1> DEFINE part == SubSeq(bytes, 1, u)
<1>1. /\ u \in Nat /\ Len(bytes) \in Nat /\ part \in Bytes /\ Len(part) = u
      /\ \A i \in 1 .. u : part[i] = bytes[i]
  BY FirstBytes DEF Bytes
<1>2. PICK g : ParseRecords(part) = g[0][<<>>] /\ Parses(g, part) BY <1>1, ParseReads
<1>3. PICK whole : ParseRecords(bytes) = whole[0][<<>>] /\ Parses(whole, bytes) BY ParseReads
<1>4. <<>> \in Bytes /\ 0 \in 0 .. u BY <1>1 DEF Bytes
<1>5. g[0][<<>>] # NeedMore => whole[0][<<>>] = g[0][<<>>] BY <1>2, <1>3, <1>4, MoreBytes
<1>6. Parse(part) # NeedMore OBVIOUS
<1> HIDE DEF part
<1>7. u >= RecordHeader BY <1>1, <1>6 DEF Parse, RecordHeader
<1>8. bytes[1] = part[1] /\ ~(Len(bytes) < RecordHeader) /\ ~(Len(part) < RecordHeader) BY <1>1, <1>7 DEF RecordHeader
<1>9. Parse(bytes) = Parse(part) BY <1>2, <1>3, <1>5, <1>6, <1>8 DEF Parse
<1> QED BY <1>9 DEF part

LEMMA SameCut ==
    ASSUME NEW s, NEW t, NEW a \in Int, NEW b \in Int, \A j \in a .. b : s[j] = t[j] /\ t[j] \in Nat
    PROVE  SubSeq(s, a, b) = SubSeq(t, a, b)
<1>1. /\ SubSeq(s, a, b) \in Seq(Nat) /\ Len(SubSeq(s, a, b)) = IF a <= b THEN b - a + 1 ELSE 0
      /\ \A j \in 1 .. b - a + 1 : SubSeq(s, a, b)[j] = s[a + j - 1]
  BY SubSeqProperties
<1>2. /\ SubSeq(t, a, b) \in Seq(Nat) /\ Len(SubSeq(t, a, b)) = IF a <= b THEN b - a + 1 ELSE 0
      /\ \A j \in 1 .. b - a + 1 : SubSeq(t, a, b)[j] = t[a + j - 1]
  BY SubSeqProperties
<1>3. ASSUME NEW j \in 1 .. Len(SubSeq(s, a, b)) PROVE SubSeq(s, a, b)[j] = SubSeq(t, a, b)[j]
  <2>1. j \in 1 .. b - a + 1 /\ a + j - 1 \in a .. b BY <1>1
  <2> QED BY <1>1, <1>2, <2>1
<1>4. Len(SubSeq(s, a, b)) = Len(SubSeq(t, a, b)) BY <1>1, <1>2
<1> QED BY <1>1, <1>2, <1>3, <1>4, SeqEqual

LEMMA HelloInFront ==
    ASSUME NEW bytes \in Bytes, NEW size \in Nat, NEW name, IsHello(bytes, size, name),
           NEW u \in 0 .. Len(bytes), size <= u
    PROVE  IsHello(SubSeq(bytes, 1, u), size, name)
<1> DEFINE part == SubSeq(bytes, 1, u)
<1>1. /\ u \in Nat /\ Len(bytes) \in Nat /\ part \in Bytes /\ Len(part) = u
      /\ \A i \in 1 .. u : part[i] = bytes[i]
  BY FirstBytes DEF Bytes
<1> HIDE DEF part
<1>2. PICK message \in Bytes, ends \in Seq(Nat) :
        Carries(bytes, message, ends) /\ Asks(message, name) /\ size = EndOf(ends, Len(ends))
  BY DEF IsHello
<1>3. Len(message) \in Nat /\ Len(ends) \in Nat BY DEF Bytes
<1> DEFINE Fits(i) == EndOf(ends, i) <= u
           T == {k \in Nat : k <= Len(ends) => Fits(Len(ends) - k)}
<1>4. \A i \in 0 .. Len(ends) : Fits(i)
  <2>1. 0 \in T BY <1>1, <1>2, <1>3
  <2>2. ASSUME NEW k \in T PROVE k + 1 \in T
    <3> SUFFICES ASSUME k + 1 <= Len(ends) PROVE Fits(Len(ends) - (k + 1))
      OBVIOUS
    <3> DEFINE i == Len(ends) - (k + 1)
    <3>1. k \in Nat /\ i \in 0 .. Len(ends) - 1 /\ i \in 0 .. Len(ends) /\ i + 1 = Len(ends) - k /\ k <= Len(ends)
      BY <1>3
    <3>2. EndOf(ends, i + 1) <= u BY <3>1
    <3> HIDE DEF i
    <3>3. HasRecord(bytes, EndOf(ends, i)) /\ EndOf(ends, i + 1) = EndAt(bytes, EndOf(ends, i)) BY <1>2, <3>1, NextHeld
    <3>4. EndOf(ends, i) \in 0 .. Len(bytes) BY <1>2, <3>1, EndsFacts
    <3>5. EndAt(bytes, EndOf(ends, i)) \in EndOf(ends, i) + 2 .. Len(bytes) BY <3>3, <3>4, RecordFacts
    <3>6. EndOf(ends, i) <= u BY <1>1, <3>2, <3>3, <3>4, <3>5
    <3> QED BY <3>6 DEF i
  <2>3. T \in SUBSET Nat OBVIOUS
  <2> HIDE DEF T
  <2>4. \A k \in Nat : k \in T BY <2>1, <2>2, <2>3, Counting
  <2> TAKE i \in 0 .. Len(ends)
  <2>5. Len(ends) - i \in Nat /\ Len(ends) - i <= Len(ends) /\ Len(ends) - (Len(ends) - i) = i BY <1>3
  <2>6. Len(ends) - i \in T BY <2>4, <2>5
  <2> HIDE DEF Fits
  <2> QED BY <2>5, <2>6 DEF T
<1>5. ASSUME NEW i \in 1 .. Len(ends) PROVE CarriesAt(part, message, ends, i)
  <2>1. i - 1 \in 0 .. Len(ends) - 1 /\ i - 1 \in 0 .. Len(ends) /\ i \in 0 .. Len(ends) /\ (i - 1) + 1 = i /\ i # 0
    BY <1>3
  <2> DEFINE start == EndOf(ends, i - 1)
  <2>2. CarriesAt(bytes, message, ends, i) BY <1>2 DEF Carries
  <2>3. start \in 0 .. Len(bytes) BY <1>2, <2>1, EndsFacts
  <2>4. EndOf(ends, i) = ends[i] /\ ends[i] <= u BY <1>4, <2>1 DEF EndOf
  <2>5. HasRecord(bytes, start) /\ ends[i] = EndAt(bytes, start) BY <2>2 DEF CarriesAt
  <2>6. SubSeq(bytes, start + RecordHeader + 1, ends[i])
          = SubSeq(message, start - RecordHeader * (i - 1) + 1, ends[i] - RecordHeader * i)
    BY <2>2 DEF CarriesAt
  <2> HIDE DEF start
  <2>7. ends[i] \in start + 2 .. Len(bytes) /\ bytes[start + 2] \in Nat BY <2>3, <2>5, RecordFacts
  <2>8. part[start + 1] = bytes[start + 1] /\ part[start + 2] = bytes[start + 2] BY <1>1, <2>3, <2>4, <2>7
  <2>9. EndAt(part, start) = EndAt(bytes, start) BY <2>8 DEF EndAt
  <2>10. HasRecord(part, start) BY <1>1, <2>3, <2>4, <2>5, <2>7, <2>8, <2>9 DEF HasRecord, RecordHeader
  <2> DEFINE from == start + RecordHeader + 1
  <2>11. from \in 1 .. u + 1 /\ ends[i] \in 0 .. u BY <1>1, <2>3, <2>4, <2>7 DEF RecordHeader
  <2> HIDE DEF from
  <2>12. SubSeq(part, from, ends[i]) = SubSeq(bytes, from, ends[i])
    <3>1. \A j \in from .. ends[i] : part[j] = bytes[j] /\ bytes[j] \in Nat
      <4>1. \A j \in 1 .. Len(bytes) : bytes[j] \in Nat BY DEF Bytes
      <4> QED BY <1>1, <2>11, <4>1
    <3> QED BY <1>1, <2>11, <3>1, SameCut
  <2> QED BY <2>2, <2>5, <2>6, <2>9, <2>10, <2>12 DEF CarriesAt, from, start
<1>6. Carries(part, message, ends) BY <1>2, <1>5 DEF Carries
<1> QED BY <1>2, <1>6 DEF IsHello, part

(* The buffer has been parsed as often as it has grown. *)
HelloIInv ==
    /\ HelloTypeOK
    /\ verdict = Parse(SubSeq(hello.bytes, 1, used))
    /\ reading = "parsed" => verdict # NeedMore

LEMMA HelloIInvInit == HelloInit => HelloIInv
<1> SUFFICES ASSUME HelloInit PROVE HelloIInv
  OBVIOUS
<1>1. hello.bytes \in Bytes /\ Len(hello.bytes) \in Nat BY HelloAssumption DEF HelloInit, Bytes
<1>2. Len(SubSeq(hello.bytes, 1, 0)) = 0 BY <1>1, FirstBytes
<1>3. Parse(SubSeq(hello.bytes, 1, 0)) = NeedMore BY <1>2 DEF Parse, RecordHeader
<1>4. HelloTypeOK
  <2>1. hello \in Hellos /\ came = 0 /\ finished = FALSE /\ used = 0 /\ reading = "reading" BY DEF HelloInit
  <2>2. came \in 0 .. Len(hello.bytes) /\ used \in 0 .. came /\ used <= Capacity BY <1>1, <2>1, HelloAssumption
  <2> QED BY <2>1, <2>2 DEF HelloTypeOK
<1>5. verdict = Parse(SubSeq(hello.bytes, 1, used)) /\ reading # "parsed" BY <1>3 DEF HelloInit
<1> QED BY <1>4, <1>5 DEF HelloIInv

LEMMA HelloIInvStep == HelloIInv /\ [HelloNext]_helloVars => HelloIInv'
<1> SUFFICES ASSUME HelloIInv, [HelloNext]_helloVars PROVE HelloIInv'
  OBVIOUS
<1> USE DEF HelloIInv, HelloTypeOK
<1>0. Capacity \in Nat /\ Len(hello.bytes) \in Nat BY HelloAssumption
<1>1. CASE HelloArrives BY <1>0, <1>1 DEF HelloArrives
<1>2. CASE HelloFinishes BY <1>2 DEF HelloFinishes
<1>3. CASE ReadsHello
  <2>1. used' \in 0 .. came /\ used' <= Capacity BY <1>0, <1>3 DEF ReadsHello
  <2>2. verdict' = Parse(SubSeq(hello.bytes, 1, used')) /\ hello' = hello /\ came' = came /\ finished' = finished
    BY <1>3 DEF ReadsHello
  <2>3. /\ reading' \in {"reading", "parsed", "full", "timeout", "end"}
        /\ reading' = "parsed" => verdict' # NeedMore
    BY <1>3 DEF ReadsHello
  <2> QED BY <2>1, <2>2, <2>3
<1>4. CASE GivesUp BY <1>4 DEF GivesUp
<1>5. CASE UNCHANGED helloVars BY <1>5 DEF helloVars
<1> QED BY <1>1, <1>2, <1>3, <1>4, <1>5 DEF HelloNext

(* What the client means: a ClientHello for its name, or no ClientHello.    *)
AsMeant(h) ==
    IF h.name = NoName THEN \A size \in Nat, name \in Nat : ~IsHello(h.bytes, size, name)
    ELSE IsHello(h.bytes, h.size, h.name)

LEMMA HelloIInvGives ==
    ASSUME \A h \in Hellos : AsMeant(h), HelloIInv
    PROVE  HelloInv
<1> DEFINE bytes == hello.bytes
           name == hello.name
<1>1. bytes \in Bytes /\ hello.size \in Nat /\ Len(bytes) \in Nat BY HelloAssumption DEF HelloIInv, HelloTypeOK, Bytes
<1>2. used \in 0 .. Len(bytes) BY <1>1 DEF HelloIInv, HelloTypeOK
<1>3. verdict = Parse(SubSeq(bytes, 1, used)) BY DEF HelloIInv
<1>4. verdict # NeedMore => verdict = Parse(bytes) BY <1>1, <1>2, <1>3, MoreBytesAgree
<1>5. AsMeant(hello) BY DEF HelloIInv, HelloTypeOK
<1>6. NameIsFound
  <2> SUFFICES ASSUME name # NoName
               PROVE  /\ verdict \in {NeedMore, name}
                      /\ reading = "parsed" => verdict = name
                      /\ reading \in {"reading", "timeout", "end"} /\ used >= hello.size => verdict = name
    BY DEF NameIsFound
  <2>1. IsHello(bytes, hello.size, name) BY <1>5 DEF AsMeant
  <2>2. Parse(bytes) = name BY <1>1, <2>1, HelloSays
  <2>3. used >= hello.size => verdict = name
    <3> SUFFICES ASSUME used >= hello.size PROVE verdict = name
      OBVIOUS
    <3>1. hello.size <= used BY <1>1, <1>2
    <3>2. IsHello(SubSeq(bytes, 1, used), hello.size, name) BY <1>1, <1>2, <2>1, <3>1, HelloInFront
    <3>3. SubSeq(bytes, 1, used) \in Bytes BY <1>1, <1>2, FirstBytes
    <3> QED BY <1>3, <3>2, <3>3, HelloSays
  <2> QED BY <1>4, <2>2, <2>3 DEF HelloIInv
<1>7. NoNameIsInvented
  <2> SUFFICES ASSUME name = NoName, verdict \notin {NeedMore, NotTls} PROVE FALSE
    BY DEF NoNameIsInvented
  <2>1. Parse(bytes) \notin {NeedMore, NotTls} BY <1>4
  <2>2. PICK size \in Nat : IsHello(bytes, size, Parse(bytes)) BY <1>1, <2>1, OnlyHelloSays
  <2>3. Parse(bytes) \in Nat
    <3>1. PICK message \in Bytes : Asks(message, Parse(bytes)) BY <2>2 DEF IsHello
    <3>2. Len(message) \in Nat /\ \A i \in 1 .. Len(message) : message[i] \in Nat BY DEF Bytes
    <3>3. Len(message) >= 2 /\ Len(message) >= message[2] + 2 /\ message[2] # 0 BY <3>1 DEF Asks, Complete, MessageHeader
    <3>4. message[2] \in Nat BY <3>2, <3>3
    <3>5. 3 \in 1 .. Len(message) BY <3>2, <3>3, <3>4
    <3>6. Parse(bytes) = message[3] BY <3>1 DEF Asks, MessageHeader
    <3> QED BY <3>2, <3>5, <3>6
  <2> QED BY <1>5, <2>2, <2>3 DEF AsMeant
<1>8. VerdictIsFinal BY <1>4 DEF VerdictIsFinal, HelloIInv
<1> QED BY <1>6, <1>7, <1>8 DEF HelloInv, HelloIInv

(* However it is cut and whatever follows it, a ClientHello is read as what *)
(* it is, and nothing else is taken for one: HelloInv, for any clients that *)
(* send what AsMeant says and any capacity.                                 *)
THEOREM HelloTheorem == ASSUME \A h \in Hellos : AsMeant(h) PROVE HelloSpec => []HelloInv
<1>1. HelloIInv => HelloInv BY HelloIInvGives
<1> QED BY <1>1, HelloIInvInit, HelloIInvStep, PTL DEF HelloSpec

-----------------------------------------------------------------------------
(* The routing rules *)

Names == Seq(STRING)

(* What is left of a name from there on. *)
TailAt(name, k) == SubSeq(name, k, Len(name))

LEMMA TailFacts ==
    ASSUME NEW name \in Names, NEW k \in 1 .. Len(name) + 1
    PROVE  /\ TailAt(name, k) \in Names /\ Len(TailAt(name, k)) = Len(name) - k + 1
           /\ k = 1 => TailAt(name, k) = name
           /\ k = Len(name) + 1 => TailAt(name, k) = <<>>
<1>1. Len(name) \in Nat /\ \A i \in 1 .. Len(name) : name[i] \in STRING BY DEF Names
<1>2. k \in Int /\ \A i \in k .. Len(name) : name[i] \in STRING BY <1>1
<1>3. TailAt(name, k) \in Names BY <1>1, <1>2, SubSeqProperties DEF TailAt, Names
<1>4. Len(TailAt(name, k)) = IF k <= Len(name) THEN Len(name) - k + 1 ELSE 0
  BY <1>1, <1>2, SubSeqProperties DEF TailAt
<1>5. k = 1 => TailAt(name, k) = name BY DEF TailAt, Names
<1>6. k = Len(name) + 1 => TailAt(name, k) = <<>>
  BY <1>1, SubSeqEmpty DEF TailAt
<1> QED BY <1>1, <1>3, <1>4, <1>5, <1>6

NextDot(name, k) == Min(Dots(name, k))

LEMMA NextDotFacts ==
    ASSUME NEW name \in Names, NEW k \in 1 .. Len(name) + 1, Dots(name, k) # {}
    PROVE  /\ NextDot(name, k) \in k .. Len(name) /\ name[NextDot(name, k)] = "."
           /\ NextDot(name, k) + 1 \in k + 1 .. Len(name) + 1
           /\ \A i \in k .. Len(name) : name[i] = "." => NextDot(name, k) <= i
<1>1. Len(name) \in Nat BY DEF Names
<1>2. Dots(name, k) \in SUBSET Nat BY <1>1 DEF Dots
<1>3. NextDot(name, k) \in Dots(name, k) /\ \A x \in Dots(name, k) : NextDot(name, k) <= x
  BY <1>2, Least DEF NextDot
<1> QED BY <1>1, <1>3 DEF Dots

(* One turn of the loop. *)
Turn(g, name, k) ==
    IF RuleFor(TailAt(name, k)) # Nowhere \/ Dots(name, k) = {} THEN RuleFor(TailAt(name, k))
    ELSE g[NextDot(name, k) + 1]

Walk(g, name, n) == g = [k \in Len(name) + 1 - n .. Len(name) + 1 |-> Turn(g, name, k)]

LEMMA WalksExist ==
    ASSUME NEW name \in Names
    PROVE  \A n \in Nat : n <= Len(name) => \E g : Walk(g, name, n)
<1> DEFINE T == {n \in Nat : n <= Len(name) => \E g : Walk(g, name, n)}
           L == Len(name)
<1>0. L \in Nat BY DEF Names
<1>1. 0 \in T
  <2> DEFINE g == [k \in L + 1 - 0 .. L + 1 |-> RuleFor(TailAt(name, k))]
  <2>1. ASSUME NEW k \in L + 1 - 0 .. L + 1 PROVE Turn(g, name, k) = RuleFor(TailAt(name, k))
    <3>1. Dots(name, k) = {} BY <1>0 DEF Dots
    <3> QED BY <3>1 DEF Turn
  <2>2. g = [k \in L + 1 - 0 .. L + 1 |-> Turn(g, name, k)] BY <2>1
  <2> QED BY <2>2 DEF Walk
<1>2. ASSUME NEW n \in T PROVE n + 1 \in T
  <2>0. SUFFICES ASSUME n + 1 <= L PROVE \E h : Walk(h, name, n + 1)
    OBVIOUS
  <2>1. n \in Nat /\ n <= L BY <1>0, <2>0
  <2>2. PICK g : Walk(g, name, n) BY <2>1
  <2> DEFINE h == [k \in L + 1 - (n + 1) .. L + 1 |-> IF k >= L + 1 - n THEN g[k] ELSE Turn(g, name, k)]
  <2>3. g = [k \in L + 1 - n .. L + 1 |-> Turn(g, name, k)] BY <2>2 DEF Walk
  <2> HIDE DEF L
  <2>4. ASSUME NEW k \in L + 1 - (n + 1) .. L + 1 PROVE h[k] = Turn(h, name, k)
    <3>1. k \in 1 .. L + 1 BY <1>0, <2>0, <2>1
    <3>2. Dots(name, k) # {} => h[NextDot(name, k) + 1] = g[NextDot(name, k) + 1]
      <4>1. SUFFICES ASSUME Dots(name, k) # {} PROVE h[NextDot(name, k) + 1] = g[NextDot(name, k) + 1]
        OBVIOUS
      <4>2. NextDot(name, k) + 1 \in k + 1 .. L + 1 BY <3>1, <4>1, NextDotFacts DEF L
      <4>3. NextDot(name, k) + 1 \in L + 1 - (n + 1) .. L + 1 /\ NextDot(name, k) + 1 >= L + 1 - n
        BY <1>0, <2>1, <3>1, <4>2
      <4> QED BY <4>3
    <3>3. Turn(h, name, k) = Turn(g, name, k) BY <3>2 DEF Turn
    <3>4. CASE k >= L + 1 - n
      <4>1. k \in L + 1 - n .. L + 1 BY <1>0, <2>1, <3>1, <3>4
      <4>2. g[k] = Turn(g, name, k) BY <2>3, <4>1
      <4> QED BY <3>3, <3>4, <4>2
    <3>5. CASE ~(k >= L + 1 - n) BY <3>3, <3>5
    <3> QED BY <3>4, <3>5
  <2>5. h = [k \in L + 1 - (n + 1) .. L + 1 |-> h[k]] OBVIOUS
  <2> HIDE DEF h
  <2>6. h = [k \in L + 1 - (n + 1) .. L + 1 |-> Turn(h, name, k)] BY <2>4, <2>5
  <2> QED BY <2>6 DEF Walk, L
<1>3. T \in SUBSET Nat OBVIOUS
<1> HIDE DEF T
<1>4. \A n \in Nat : n \in T BY <1>1, <1>2, <1>3, Counting
<1> QED BY <1>4 DEF T

LEMMA TargetWalks ==
    ASSUME NEW name \in Names
    PROVE  \E g : TargetFor(name) = g[1] /\ \A k \in 1 .. Len(name) + 1 : g[k] = Turn(g, name, k)
<1>1. Len(name) \in Nat /\ Len(name) + 1 - Len(name) = 1 BY DEF Names
<1>2. PICK g0 : Walk(g0, name, Len(name)) BY <1>1, WalksExist
<1> DEFINE Loop(g) == g = [k \in 1 .. Len(name) + 1 |-> Turn(g, name, k)]
           chosen == CHOOSE g : Loop(g)
<1>3. Loop(g0) BY <1>1, <1>2 DEF Walk
<1>4. Loop(chosen)
  <2> HIDE DEF Loop
  <2> QED BY <1>3
<1>5. TargetFor(name) = chosen[1] BY DEF TargetFor, Turn, NextDot, TailAt
<1> HIDE DEF chosen
<1>6. \A k \in 1 .. Len(name) + 1 : chosen[k] = Turn(chosen, name, k) BY <1>4
<1> QED BY <1>5, <1>6

(* The places where a candidate begins: this one, and behind each dot. *)
Follows(name, k, j) ==
    /\ k <= j /\ j <= Len(name) + 1
    /\ j = k \/ name[j - 1] = "."

Hit(name, j) == RuleFor(TailAt(name, j)) # Nowhere

(* The loop stops at the first candidate that has a rule. *)
FirstHit(name, k, j) ==
    /\ Follows(name, k, j) /\ Hit(name, j)
    /\ \A i \in 1 .. Len(name) + 1 : Follows(name, k, i) /\ Hit(name, i) => j <= i

Finds(g, name, k) ==
    \/ g[k] = Nowhere /\ \A j \in 1 .. Len(name) + 1 : Follows(name, k, j) => ~Hit(name, j)
    \/ \E j \in 1 .. Len(name) + 1 : FirstHit(name, k, j) /\ g[k] = RuleFor(TailAt(name, j))

LEMMA OneTurn ==
    ASSUME NEW name \in Names, NEW k \in 1 .. Len(name) + 1, NEW g, g[k] = Turn(g, name, k),
           \A m \in 1 .. Len(name) + 1 : m > k => Finds(g, name, m)
    PROVE  Finds(g, name, k)
<1>0. Len(name) \in Nat BY DEF Names
<1>1. CASE Hit(name, k)
  <2>1. FirstHit(name, k, k) BY <1>0, <1>1 DEF FirstHit, Follows
  <2>2. g[k] = RuleFor(TailAt(name, k)) BY <1>1 DEF Turn, Hit
  <2> QED BY <2>1, <2>2 DEF Finds
<1>2. CASE ~Hit(name, k) /\ Dots(name, k) = {}
  <2>1. g[k] = Nowhere BY <1>2 DEF Turn, Hit
  <2>2. ASSUME NEW j \in 1 .. Len(name) + 1, Follows(name, k, j) PROVE j = k
    <3>1. SUFFICES ASSUME j # k PROVE FALSE
      OBVIOUS
    <3>2. j - 1 \in k .. Len(name) /\ name[j - 1] = "." BY <1>0, <2>2, <3>1 DEF Follows
    <3> QED BY <1>2, <3>2 DEF Dots
  <2> QED BY <1>2, <2>1, <2>2 DEF Finds
<1>3. CASE ~Hit(name, k) /\ Dots(name, k) # {}
  <2> DEFINE d == NextDot(name, k) + 1
  <2>1. /\ d - 1 \in k .. Len(name) /\ name[d - 1] = "." /\ d \in k + 1 .. Len(name) + 1
        /\ \A i \in k .. Len(name) : name[i] = "." => d - 1 <= i
    <3>1. NextDot(name, k) \in k .. Len(name) /\ name[NextDot(name, k)] = "."
      BY <1>3, NextDotFacts
    <3>2. \A i \in k .. Len(name) : name[i] = "." => NextDot(name, k) <= i
      BY <1>3, NextDotFacts
    <3>3. d - 1 = NextDot(name, k) BY <1>0, <3>1
    <3>4. d \in k + 1 .. Len(name) + 1 BY <1>0, <3>1
    <3> HIDE DEF d
    <3> QED BY <3>1, <3>2, <3>3, <3>4
  <2>2. g[k] = g[d] BY <1>3 DEF Turn, Hit
  <2> HIDE DEF d
  <2>3. d \in 1 .. Len(name) + 1 /\ d > k BY <1>0, <2>1
  <2>4. ASSUME NEW i \in 1 .. Len(name) + 1
        PROVE  Follows(name, k, i) <=> i = k \/ Follows(name, d, i)
    <3>1. CASE i <= k BY <1>0, <2>1, <3>1 DEF Follows
    <3>2. CASE i > k
      <4>1. Follows(name, k, i) => Follows(name, d, i)
        <5>1. SUFFICES ASSUME Follows(name, k, i) PROVE Follows(name, d, i)
          OBVIOUS
        <5>2. i - 1 \in k .. Len(name) /\ name[i - 1] = "." BY <1>0, <3>2, <5>1 DEF Follows
        <5>3. d - 1 <= i - 1 BY <2>1, <5>2
        <5> QED BY <1>0, <2>1, <5>2, <5>3 DEF Follows
      <4>2. Follows(name, d, i) => Follows(name, k, i)
        BY <1>0, <2>1, <3>2 DEF Follows
      <4> QED BY <1>0, <3>2, <4>1, <4>2
    <3> QED BY <1>0, <3>1, <3>2
  <2>5. Finds(g, name, d) BY <2>3
  <2>6. CASE g[d] = Nowhere /\ \A j \in 1 .. Len(name) + 1 : Follows(name, d, j) => ~Hit(name, j)
    BY <1>3, <2>2, <2>4, <2>6 DEF Finds
  <2>7. ASSUME NEW j \in 1 .. Len(name) + 1, FirstHit(name, d, j), g[d] = RuleFor(TailAt(name, j))
        PROVE  Finds(g, name, k)
    <3>1. FirstHit(name, k, j) BY <1>3, <2>4, <2>7 DEF FirstHit
    <3> QED BY <2>2, <2>7, <3>1 DEF Finds
  <2> QED BY <2>5, <2>6, <2>7 DEF Finds
<1> QED BY <1>1, <1>2, <1>3

LEMMA TargetFinds ==
    ASSUME NEW name \in Names
    PROVE  \/ TargetFor(name) = Nowhere /\ \A j \in 1 .. Len(name) + 1 : Follows(name, 1, j) => ~Hit(name, j)
           \/ \E j \in 1 .. Len(name) + 1 : FirstHit(name, 1, j) /\ TargetFor(name) = RuleFor(TailAt(name, j))
<1>1. PICK g : TargetFor(name) = g[1] /\ \A k \in 1 .. Len(name) + 1 : g[k] = Turn(g, name, k)
  BY TargetWalks
<1> DEFINE L == Len(name)
           T == {n \in Nat : \A k \in 1 .. L + 1 : L + 1 - k <= n => Finds(g, name, k)}
<1>2. L \in Nat BY DEF Names
<1>3. 0 \in T
  <2>1. SUFFICES ASSUME NEW k \in 1 .. L + 1, L + 1 - k <= 0 PROVE Finds(g, name, k)
    OBVIOUS
  <2>2. \A m \in 1 .. L + 1 : ~(m > k) BY <1>2, <2>1
  <2> QED BY <1>1, <2>2, OneTurn
<1>4. ASSUME NEW n \in T PROVE n + 1 \in T
  <2>1. SUFFICES ASSUME NEW k \in 1 .. L + 1, L + 1 - k <= n + 1 PROVE Finds(g, name, k)
    OBVIOUS
  <2>2. ASSUME NEW m \in 1 .. L + 1, m > k PROVE Finds(g, name, m)
    <3>1. L + 1 - m <= n BY <1>2, <2>1, <2>2
    <3> QED BY <3>1
  <2> QED BY <1>1, <2>2, OneTurn
<1>5. T \in SUBSET Nat OBVIOUS
<1> HIDE DEF T
<1>6. L \in T BY <1>2, <1>3, <1>4, <1>5, Counting
<1>7. Finds(g, name, 1) BY <1>2, <1>6 DEF T
<1> QED BY <1>1, <1>7 DEF Finds

Books == rules \in RuleBooks /\ host \in Hosts

LEMMA ListsAreNames ==
    ASSUME Books
    PROVE  /\ host \in Names /\ host # <<>>
           /\ <<>> \notin rules.suffix \cup rules.domains \cup DOMAIN rules.fixed
BY RoutingAssumption DEF Books, Names

LEMMA RuleMeansListed ==
    ASSUME NEW name
    PROVE  /\ RuleFor(name) # Nowhere <=> name \in rules.domains \cup DOMAIN rules.fixed
           /\ name \in rules.domains \cup DOMAIN rules.fixed =>
                RuleFor(name) = IF name \in DOMAIN rules.fixed THEN Fixed(name) ELSE Gateway("geohide")
BY DEF RuleFor, Nowhere, Fixed, Gateway

(* The candidates are the names that the name falls under. *)
LEMMA TailsAreCandidates ==
    ASSUME NEW name \in Names
    PROVE  /\ \A j \in 1 .. Len(name) : Follows(name, 1, j) => TailAt(name, j) \in Tails(name)
           /\ \A t \in Tails(name) : \E j \in 1 .. Len(name) : Follows(name, 1, j) /\ t = TailAt(name, j)
<1>0. Len(name) \in Nat BY DEF Names
<1>1. ASSUME NEW j \in 1 .. Len(name)
      PROVE  /\ TailAt(name, j) \in Suffixes(name) /\ TailAt(name, j) # <<>>
             /\ Len(name) - Len(TailAt(name, j)) = j - 1
             /\ j = 1 => TailAt(name, j) = name
  <2>1. j \in 1 .. Len(name) + 1 BY <1>0
  <2>2. Len(TailAt(name, j)) = Len(name) - j + 1 BY <2>1, TailFacts
  <2>3. TailAt(name, j) # <<>> BY <1>0, <2>2
  <2>4. TailAt(name, j) \in Suffixes(name) BY DEF TailAt, Suffixes
  <2>5. j = 1 => TailAt(name, j) = name BY <2>1, TailFacts
  <2> QED BY <1>0, <2>2, <2>3, <2>4, <2>5
<1>2. ASSUME NEW j \in 1 .. Len(name)
      PROVE  Follows(name, 1, j) <=> IsUnder(name, TailAt(name, j))
  <2>1. CASE j = 1 BY <1>0, <1>1, <2>1 DEF Follows, IsUnder
  <2>2. CASE j > 1
    <3>1. name # TailAt(name, j) BY <1>0, <1>1, <2>2
    <3>2. SubSeq(name, (j - 1) + 1, Len(name)) = TailAt(name, j)
      <4>1. (j - 1) + 1 = j BY <1>0
      <4> QED BY <4>1 DEF TailAt
    <3>3. Len(name) - Len(TailAt(name, j)) = j - 1 BY <1>1
    <3>4. IsUnder(name, TailAt(name, j)) <=> name[j - 1] = "."
      <4> HIDE DEF TailAt
      <4>1. Len(name) - Len(TailAt(name, j)) > 0 BY <1>0, <2>2, <3>3
      <4>2. SubSeq(name, (Len(name) - Len(TailAt(name, j))) + 1, Len(name)) = TailAt(name, j) BY <3>2, <3>3
      <4>3. name[Len(name) - Len(TailAt(name, j))] = name[j - 1] BY <3>3
      <4> QED BY <3>1, <4>1, <4>2, <4>3 DEF IsUnder
    <3> QED BY <1>0, <2>2, <3>4 DEF Follows
  <2> QED BY <1>0, <2>1, <2>2
<1>3. ASSUME NEW t \in Tails(name)
      PROVE  \E j \in 1 .. Len(name) : Follows(name, 1, j) /\ t = TailAt(name, j)
  <2>1. t \in Suffixes(name) /\ t # <<>> /\ IsUnder(name, t) BY DEF Tails
  <2>2. PICK j \in 1 .. Len(name) : t = TailAt(name, j) BY <2>1 DEF Suffixes, TailAt
  <2> QED BY <1>2, <2>1, <2>2
<1> QED BY <1>1, <1>2, <1>3 DEF Tails

(* MostSpecificDecides: the first candidate that is listed is the longest. *)
LEMMA LongestDecides ==
    ASSUME Books
    PROVE  MostSpecificDecides
<1> DEFINE L == Len(host)
           P == 1 .. L + 1
<1>1. host \in Names /\ L \in Nat BY ListsAreNames DEF Names
<1>2. ASSUME NEW j \in P, Follows(host, 1, j), Hit(host, j)
      PROVE  j \in 1 .. L /\ TailAt(host, j) \in Listed(host)
  <2>1. TailAt(host, j) \in rules.domains \cup DOMAIN rules.fixed BY <1>2, RuleMeansListed DEF Hit
  <2>2. j # L + 1 BY <1>1, <2>1, ListsAreNames, TailFacts
  <2>3. j \in 1 .. L BY <1>1, <2>2
  <2>4. TailAt(host, j) \in Tails(host) BY <1>1, <1>2, <2>3, TailsAreCandidates
  <2> QED BY <2>1, <2>3, <2>4 DEF Listed
<1>3. ASSUME NEW t \in Listed(host)
      PROVE  \E j \in 1 .. L : Follows(host, 1, j) /\ Hit(host, j) /\ t = TailAt(host, j)
  <2>1. t \in Tails(host) /\ t \in rules.domains \cup DOMAIN rules.fixed BY DEF Listed
  <2>2. PICK j \in 1 .. L : Follows(host, 1, j) /\ t = TailAt(host, j)
    BY <1>1, <2>1, TailsAreCandidates
  <2> QED BY <2>1, <2>2, RuleMeansListed DEF Hit
<1>4. CASE TargetFor(host) = Nowhere /\ \A j \in P : Follows(host, 1, j) => ~Hit(host, j)
  <2>1. Listed(host) = {}
    <3>1. SUFFICES ASSUME NEW t \in Listed(host) PROVE FALSE
      OBVIOUS
    <3>2. PICK j \in 1 .. L : Follows(host, 1, j) /\ Hit(host, j) BY <1>3
    <3>3. j \in P BY <1>1
    <3> QED BY <1>4, <3>2, <3>3
  <2> QED BY <1>4, <2>1 DEF MostSpecificDecides
<1>5. ASSUME NEW j \in P, FirstHit(host, 1, j), TargetFor(host) = RuleFor(TailAt(host, j))
      PROVE  MostSpecificDecides
  <2> DEFINE best == TailAt(host, j)
             Longest(t) == t \in Listed(host) /\ \A u \in Listed(host) : Len(u) <= Len(t)
  <2>1. j \in 1 .. L /\ best \in Listed(host) BY <1>2, <1>5 DEF FirstHit
  <2>2. Len(best) = L - j + 1 BY <1>1, TailFacts
  <2>3. ASSUME NEW u \in Listed(host)
        PROVE  \E i \in 1 .. L : j <= i /\ u = TailAt(host, i) /\ Len(u) = L - i + 1
    <3>1. PICK i \in 1 .. L : Follows(host, 1, i) /\ Hit(host, i) /\ u = TailAt(host, i) BY <1>3
    <3>2. i \in P BY <1>1
    <3>3. j <= i BY <1>5, <3>1, <3>2 DEF FirstHit
    <3>4. Len(TailAt(host, i)) = L - i + 1 BY <1>1, <3>2, TailFacts
    <3> QED BY <3>1, <3>3, <3>4
  <2>4. \A u \in Listed(host) : Len(u) <= Len(best) BY <1>1, <2>1, <2>2, <2>3
  <2>5. ASSUME NEW t \in Listed(host), \A u \in Listed(host) : Len(u) <= Len(t) PROVE t = best
    <3>1. PICK i \in 1 .. L : j <= i /\ t = TailAt(host, i) /\ Len(t) = L - i + 1 BY <2>3
    <3>2. L - j + 1 <= L - i + 1 BY <2>1, <2>2, <2>5, <3>1
    <3>3. i = j BY <1>1, <2>1, <3>1, <3>2
    <3> QED BY <3>1, <3>3
  <2>6. RuleFor(best) = IF best \in DOMAIN rules.fixed THEN Fixed(best) ELSE Gateway("geohide")
    BY <2>1, RuleMeansListed DEF Listed
  <2>7. TargetFor(host) = RuleFor(best) BY <1>5
  <2> HIDE DEF best
  <2>8. (CHOOSE t \in Listed(host) : \A u \in Listed(host) : Len(u) <= Len(t)) = best
    BY <2>1, <2>4, <2>5
  <2>9. Listed(host) # {} BY <2>1
  <2> QED BY <2>6, <2>7, <2>8, <2>9 DEF MostSpecificDecides
<1> QED BY <1>1, <1>4, <1>5, TargetFinds

(* What the application has learned, and where its connection went.        *)
Learned == learned \in {Nowhere} \cup {DnsAnswer(type) : type \in {"A", "AAAA"}}

Connected ==
    target # Nowhere =>
        /\ learned \notin {Nowhere, NoData}
        /\ conn.port \in {80, 443} /\ conn.name \in {host, Unnamed}
        /\ target \in Targets(learned, conn.port, conn.name)

RoutingIInv == Books /\ Learned /\ Connected

LEMMA RoutingIInvInit == RoutingInit => RoutingIInv
BY DEF RoutingInit, RoutingIInv, Books, Learned, Connected

LEMMA RoutingIInvStep == RoutingIInv /\ [RoutingNext]_routingVars => RoutingIInv'
<1> SUFFICES ASSUME RoutingIInv, [RoutingNext]_routingVars PROVE RoutingIInv'
  OBVIOUS
<1> USE DEF RoutingIInv
<1>1. ASSUME NEW type \in {"A", "AAAA"}, LooksUp(type) PROVE RoutingIInv'
  <2>1. UNCHANGED <<rules, host, conn, target>> /\ learned' = DnsAnswer(type) BY <1>1 DEF LooksUp
  <2>2. \A ty : DnsAnswer(ty)' = DnsAnswer(ty) BY <2>1 DEF DnsAnswer, Fixed, NoData, Real, Real4, Real6
  <2>3. target = Nowhere BY <1>1 DEF LooksUp, Connected
  <2> QED BY <2>1, <2>2, <2>3 DEF Books, Learned, Connected, Nowhere
<1>2. ASSUME NEW port \in {80, 443}, NEW name \in {host, Unnamed}, ConnectsTo(port, name) PROVE RoutingIInv'
  <2>1. /\ UNCHANGED <<rules, host, learned>> /\ learned \notin {Nowhere, NoData}
        /\ conn' = [port |-> port, name |-> name] /\ target' \in Targets(learned, port, name)
    BY <1>2 DEF ConnectsTo
  <2>2. conn'.port = port /\ conn'.name = name BY <2>1
  <2>3. Targets(learned, conn.port, conn.name)' = Targets(learned, port, name)
    BY <2>1, <2>2 DEF Targets, DirectTargets, GatewayFor, TargetFor, RuleFor, Fixed, Gateway, Nowhere, Real4, Real6, Unnamed
  <2>4. \A ty : DnsAnswer(ty)' = DnsAnswer(ty) BY <2>1 DEF DnsAnswer, Fixed, NoData, Real, Real4, Real6
  <2>5. (target \in Targets(learned, conn.port, conn.name))' BY <2>1, <2>3
  <2>6. Books' /\ Learned' BY <2>1, <2>4 DEF Books, Learned, Nowhere
  <2>7. (learned \notin {Nowhere, NoData})' BY <2>1 DEF Nowhere, NoData
  <2>8. (conn.port \in {80, 443} /\ conn.name \in {host, Unnamed})' BY <2>1, <2>2 DEF Unnamed
  <2> QED BY <2>5, <2>6, <2>7, <2>8 DEF Connected
<1>3. CASE UNCHANGED routingVars
  <2>1. UNCHANGED <<rules, host, learned, conn, target>> BY <1>3 DEF routingVars
  <2>2. \A ty : DnsAnswer(ty)' = DnsAnswer(ty) BY <2>1 DEF DnsAnswer, Fixed, NoData, Real, Real4, Real6
  <2>3. Targets(learned, conn.port, conn.name)' = Targets(learned, conn.port, conn.name)
    BY <2>1 DEF Targets, DirectTargets, GatewayFor, TargetFor, RuleFor, Fixed, Gateway, Nowhere, Real4, Real6, Unnamed
  <2>4. Books' /\ Learned' BY <2>1, <2>2 DEF Books, Learned, Nowhere
  <2>5. Connected'
    <3>1. CASE target = Nowhere BY <2>1, <3>1 DEF Connected, Nowhere
    <3>2. CASE target # Nowhere BY <2>1, <2>3, <3>2 DEF Connected, Nowhere, NoData, Unnamed
    <3> QED BY <3>1, <3>2
  <2> QED BY <2>4, <2>5
<1> QED BY <1>1, <1>2, <1>3 DEF RoutingNext

(* The kinds of targets exclude each other. *)
LEMMA TargetKinds ==
    ASSUME NEW n, NEW m, NEW group
    PROVE  /\ Fixed(n) # Nowhere /\ Gateway(group) # Nowhere
           /\ Fixed(n) # Gateway(group) /\ Fixed(n) # Real6(m) /\ Fixed(n) # NoData
           /\ Real4(n) # Gateway(group) /\ Real6(n) # Gateway(group)
           /\ Gateway("geohide") \notin {Gateway("exact"), Gateway("suffix")}
           /\ Gateway("exact") # Gateway("suffix")
BY DEF Fixed, Gateway, Nowhere, Real4, Real6, NoData

LEMMA OwnGateway ==
    ASSUME Books
    PROVE  /\ Routed(host) <=> GatewayFor(host) # Nowhere
           /\ GatewayFor(host) \in {Nowhere, Gateway("exact"), Gateway("suffix")}
           /\ host \in rules.exact => GatewayFor(host) = Gateway("exact")
<1>1. (\E t \in Tails(host) : t \in rules.suffix) <=> \E r \in rules.suffix : IsUnder(host, r)
  <2>1. ASSUME NEW r \in rules.suffix, IsUnder(host, r) PROVE r \in Tails(host)
    <3>1. r # <<>> BY ListsAreNames
    <3>2. r \in Suffixes(host)
      <4>1. CASE host = r
        <5>1. 1 \in 1 .. Len(host) /\ SubSeq(host, 1, Len(host)) = host BY ListsAreNames DEF Names
        <5> QED BY <4>1, <5>1 DEF Suffixes
      <4>2. CASE host # r
        <5> DEFINE dot == Len(host) - Len(r)
        <5>1. dot > 0 /\ SubSeq(host, dot + 1, Len(host)) = r BY <2>1, <4>2 DEF IsUnder
        <5>2. Len(host) \in Nat /\ Len(r) \in Nat BY ListsAreNames, RoutingAssumption DEF Books, Names
        <5>3. Len(r) > 0 BY <3>1, RoutingAssumption DEF Books
        <5>4. dot + 1 \in 1 .. Len(host) BY <5>1, <5>2, <5>3
        <5> QED BY <5>1, <5>4 DEF Suffixes
      <4> QED BY <4>1, <4>2
    <3> QED BY <2>1, <3>1, <3>2 DEF Tails
  <2> QED BY <2>1 DEF Tails
<1> QED BY <1>1, TargetKinds DEF Routed, GatewayFor

LEMMA FixedIsFirst ==
    ASSUME Books, host \in DOMAIN rules.fixed
    PROVE  TargetFor(host) = Fixed(host)
<1>1. host \in Names /\ Len(host) \in Nat BY ListsAreNames DEF Names
<1>2. PICK g : TargetFor(host) = g[1] /\ \A k \in 1 .. Len(host) + 1 : g[k] = Turn(g, host, k)
  BY <1>1, TargetWalks
<1>3. 1 \in 1 .. Len(host) + 1 BY <1>1
<1>4. TailAt(host, 1) = host BY <1>1, <1>3, TailFacts
<1>5. RuleFor(host) = Fixed(host) /\ Fixed(host) # Nowhere BY RuleMeansListed, TargetKinds
<1> QED BY <1>2, <1>3, <1>4, <1>5 DEF Turn

(* What was learned of a host. *)
LEMMA LearnedKinds ==
    ASSUME Books, Learned, learned \notin {Nowhere, NoData}
    PROVE  IF host \in DOMAIN rules.fixed THEN learned = Fixed(host) ELSE learned \in {Real4(host), Real6(host)}
BY DEF Learned, DnsAnswer, Real

LEMMA OverrideIsKept == ASSUME RoutingIInv PROVE OverrideHolds
<1> SUFFICES ASSUME target # Nowhere, host \in DOMAIN rules.fixed
             PROVE  \/ target = Fixed(host)
                    \/ conn.port = 443 /\ conn.name = host /\ Routed(host) /\ target = GatewayFor(host)
  BY DEF OverrideHolds
<1>1. /\ learned = Fixed(host) /\ conn.name \in {host, Unnamed}
      /\ target \in Targets(learned, conn.port, conn.name)
  BY LearnedKinds DEF RoutingIInv, Connected
<1>2. DirectTargets(learned, conn.name) = {Fixed(host)} BY <1>1, TargetKinds DEF DirectTargets
<1>3. TargetFor(host) = Fixed(host) /\ Fixed(host) # Nowhere BY FixedIsFirst, TargetKinds DEF RoutingIInv
<1>4. host # Unnamed BY ListsAreNames DEF RoutingIInv, Unnamed
<1>5. CASE conn.port # 443 BY <1>1, <1>5 DEF Targets
<1>6. CASE conn.port = 443 /\ conn.name = Unnamed BY <1>1, <1>2, <1>6 DEF Targets
<1>7. CASE conn.port = 443 /\ conn.name = host /\ GatewayFor(host) # Nowhere
  BY <1>1, <1>4, <1>7, OwnGateway DEF Targets, RoutingIInv
<1>8. CASE conn.port = 443 /\ conn.name = host /\ GatewayFor(host) = Nowhere
  BY <1>1, <1>3, <1>4, <1>8 DEF Targets
<1> QED BY <1>1, <1>5, <1>6, <1>7, <1>8

LEMMA ListsAreFollowed == ASSUME RoutingIInv PROVE RoutedAsListed
<1> SUFFICES ASSUME target # Nowhere, conn.port = 443, conn.name = host
             PROVE  /\ Routed(host) <=> target \in {Gateway("exact"), Gateway("suffix")}
                    /\ (host \in rules.exact) => target = Gateway("exact")
                    /\ (~Routed(host) /\ Listed(host) = {}) => target \in {Real4(host), Real6(host)}
  BY DEF RoutedAsListed
<1>0. Books BY DEF RoutingIInv
<1>1. /\ IF host \in DOMAIN rules.fixed THEN learned = Fixed(host) ELSE learned \in {Real4(host), Real6(host)}
      /\ target \in Targets(learned, 443, host)
  BY LearnedKinds DEF RoutingIInv, Connected
<1>2. host # Unnamed BY <1>0, ListsAreNames DEF Unnamed
<1>3. CASE GatewayFor(host) # Nowhere
  <2>1. target = GatewayFor(host) BY <1>1, <1>2, <1>3 DEF Targets
  <2> QED BY <1>0, <1>3, <2>1, OwnGateway
<1>4. CASE GatewayFor(host) = Nowhere
  <2>1. target \in IF TargetFor(host) # Nowhere THEN {TargetFor(host)} ELSE DirectTargets(learned, host)
    BY <1>1, <1>2, <1>4 DEF Targets
  <2>2. ~Routed(host) /\ host \notin rules.exact BY <1>0, <1>4, OwnGateway DEF Routed
  <2>3. MostSpecificDecides BY <1>0, LongestDecides
  <2>4. TargetFor(host) = Nowhere \/ TargetFor(host) = Gateway("geohide") \/ \E n : TargetFor(host) = Fixed(n)
    BY <2>3 DEF MostSpecificDecides
  <2>5. target \notin {Gateway("exact"), Gateway("suffix")}
    <3>1. CASE TargetFor(host) # Nowhere BY <2>1, <2>4, <3>1, TargetKinds
    <3>2. CASE TargetFor(host) = Nowhere
      <4>1. target = learned \/ target = Real4(host) BY <2>1, <3>2 DEF DirectTargets
      <4> QED BY <1>1, <4>1, TargetKinds
    <3> QED BY <3>1, <3>2
  <2>6. Listed(host) = {} => target \in {Real4(host), Real6(host)}
    <3>1. SUFFICES ASSUME Listed(host) = {} PROVE target \in {Real4(host), Real6(host)}
      OBVIOUS
    <3>2. TargetFor(host) = Nowhere BY <2>3, <3>1 DEF MostSpecificDecides
    <3>3. target = learned \/ target = Real4(host) BY <2>1, <3>2 DEF DirectTargets
    <3>4. host \notin DOMAIN rules.fixed
      BY <1>0, <2>1, <3>2, FixedIsFirst, TargetKinds
    <3> QED BY <1>1, <3>3, <3>4
  <2> QED BY <2>2, <2>5, <2>6
<1> QED BY <1>3, <1>4

(* RoutesAreRight: for any rules and any names, the most specific rule     *)
(* decides, an override is kept and the relay's own rules come first.      *)
THEOREM RoutesTheorem == RoutingSpec => []RoutesAreRight
<1>1. RoutingIInv => RoutesAreRight
  BY LongestDecides, OverrideIsKept, ListsAreFollowed DEF RoutesAreRight, RoutingIInv
<1> QED BY <1>1, RoutingIInvInit, RoutingIInvStep, PTL DEF RoutingSpec

-----------------------------------------------------------------------------
(* The mapped DNS *)

Extended(m, s, x) ==
    /\ Len(m) = Len(s) + 1 /\ m[Len(s) + 1] = x
    /\ \A i \in 1 .. Len(s) : m[i] = s[i]

Shifted(m, s, k, x) ==
    /\ Len(m) = Len(s) /\ m[Len(s)] = x
    /\ \A i \in 1 .. Len(s) - 1 : m[i] = IF i < k THEN s[i] ELSE s[i + 1]

LEMMA MovedNew ==
    ASSUME NEW S, NEW s \in Seq(S), IsInjective(s), NEW x \in S, x \notin ToSet(s)
    PROVE  /\ MovedToEnd(s, x) \in Seq(S)
           /\ Extended(MovedToEnd(s, x), s, x)
           /\ IsInjective(MovedToEnd(s, x))
           /\ ToSet(MovedToEnd(s, x)) = ToSet(s) \cup {x}
<1> DEFINE m == MovedToEnd(s, x)
<1>1. m = Append(s, x) BY DEF MovedToEnd
<1>2. m \in Seq(S) BY <1>1
<1>3. Extended(m, s, x) BY <1>1 DEF Extended
<1> HIDE DEF m
<1>4. Len(s) \in Nat /\ DOMAIN s = 1 .. Len(s) /\ DOMAIN m = 1 .. Len(s) + 1
  BY <1>2, <1>3 DEF Extended
<1>5. \A i \in DOMAIN s : s[i] # x BY DEF ToSet
<1>6. IsInjective(m) BY <1>3, <1>4, <1>5 DEF IsInjective, Extended
<1>7. ToSet(m) = ToSet(s) \cup {x} BY <1>3, <1>4 DEF ToSet, Extended
<1> QED BY <1>2, <1>3, <1>6, <1>7 DEF m

(* One taken out of a list, index by index. *)
LEMMA Without ==
    ASSUME NEW S, NEW s \in Seq(S), NEW k \in 1 .. Len(s)
    PROVE  /\ RemoveAt(s, k) \in Seq(S) /\ Len(RemoveAt(s, k)) = Len(s) - 1
           /\ \A i \in 1 .. Len(s) - 1 : RemoveAt(s, k)[i] = IF i < k THEN s[i] ELSE s[i + 1]
<1> DEFINE a == SubSeq(s, 1, k - 1)
           b == SubSeq(s, k + 1, Len(s))
<1>1. Len(s) \in Nat /\ k \in Nat /\ k <= Len(s) /\ 1 <= k
  OBVIOUS
<1>2. a \in Seq(S) /\ Len(a) = k - 1 /\ \A i \in 1 .. k - 1 : a[i] = s[i]
  BY <1>1, SubSeqProperties
<1>3. b \in Seq(S) /\ Len(b) = Len(s) - k /\ \A i \in 1 .. Len(s) - k : b[i] = s[k + i]
  BY <1>1, SubSeqProperties
<1>4. RemoveAt(s, k) = a \o b BY DEF RemoveAt
<1> HIDE DEF a, b
<1>5. /\ a \o b \in Seq(S) /\ Len(a \o b) = Len(s) - 1
      /\ \A i \in 1 .. Len(s) - 1 : (a \o b)[i] = IF i <= k - 1 THEN a[i] ELSE b[i - (k - 1)]
  <2>1. a \o b \in Seq(S) BY <1>2, <1>3, ConcatProperties
  <2>2. Len(a \o b) = Len(a) + Len(b) BY <1>2, <1>3, ConcatProperties
  <2>3. \A i \in 1 .. Len(a) + Len(b) : (a \o b)[i] = IF i <= Len(a) THEN a[i] ELSE b[i - Len(a)]
    BY <1>2, <1>3, ConcatProperties
  <2>4. Len(a) = k - 1 /\ Len(a) + Len(b) = Len(s) - 1 BY <1>1, <1>2, <1>3
  <2> QED BY <2>1, <2>2, <2>3, <2>4
<1>6. ASSUME NEW i \in 1 .. Len(s) - 1
      PROVE  (a \o b)[i] = IF i < k THEN s[i] ELSE s[i + 1]
  <2>1. CASE i < k
    BY <1>1, <1>2, <1>5, <2>1
  <2>2. CASE i >= k
    <3>1. i - (k - 1) \in 1 .. Len(s) - k /\ k + (i - (k - 1)) = i + 1
      BY <1>1, <2>2
    <3>2. b[i - (k - 1)] = s[i + 1]
      BY <1>3, <3>1
    <3>3. (a \o b)[i] = b[i - (k - 1)]
      BY <1>1, <1>5, <2>2
    <3>4. ~(i < k)
      BY <1>1, <2>2
    <3> QED BY <3>2, <3>3, <3>4
  <2>3. i < k \/ i >= k BY <1>1
  <2> QED BY <2>1, <2>2, <2>3
<1> QED BY <1>4, <1>5, <1>6

LEMMA MovedOld ==
    ASSUME NEW S, NEW s \in Seq(S), IsInjective(s), NEW k \in 1 .. Len(s)
    PROVE  /\ MovedToEnd(s, s[k]) \in Seq(S)
           /\ Shifted(MovedToEnd(s, s[k]), s, k, s[k])
           /\ IsInjective(MovedToEnd(s, s[k]))
           /\ ToSet(MovedToEnd(s, s[k])) = ToSet(s)
<1> DEFINE x == s[k]
           m == MovedToEnd(s, x)
           w == RemoveAt(s, k)
<1>1. DOMAIN s = 1 .. Len(s) /\ Len(s) \in Nat /\ x \in S OBVIOUS
<1>2. x \in ToSet(s) BY <1>1 DEF ToSet
<1>3. (CHOOSE j \in DOMAIN s : s[j] = x) = k BY <1>1 DEF IsInjective
<1>4. m = Append(w, x) BY <1>2, <1>3 DEF MovedToEnd
<1>5. /\ w \in Seq(S) /\ Len(w) = Len(s) - 1
      /\ \A i \in 1 .. Len(s) - 1 : w[i] = IF i < k THEN s[i] ELSE s[i + 1]
  BY Without
<1> HIDE DEF w, m
<1> HIDE DEF x
<1>6. /\ m \in Seq(S) /\ Len(m) = Len(w) + 1 /\ m[Len(w) + 1] = x
      /\ \A i \in 1 .. Len(w) : m[i] = w[i]
  <2>1. x \in S BY <1>1 DEF x
  <2>2. Append(w, x) \in Seq(S) /\ Len(Append(w, x)) = Len(w) + 1 BY <1>5, <2>1, AppendProperties
  <2>3. Append(w, x)[Len(w) + 1] = x BY <1>5, <2>1, AppendProperties
  <2>4. \A i \in 1 .. Len(w) : Append(w, x)[i] = w[i] BY <1>5, <2>1, AppendProperties
  <2> QED BY <1>4, <2>2, <2>3, <2>4
<1>7. Len(m) = Len(s) /\ Shifted(m, s, k, x) BY <1>1, <1>5, <1>6 DEF Shifted
<1>8. DOMAIN m = DOMAIN s
  <2>1. DOMAIN m = 1 .. Len(m) BY <1>6
  <2> QED BY <1>1, <1>7, <2>1
<1>9. \A i \in DOMAIN s : m[i] = IF i = Len(s) THEN s[k] ELSE IF i < k THEN s[i] ELSE s[i + 1]
  BY <1>1, <1>7 DEF Shifted, x
<1>10. IsInjective(m) BY <1>1, <1>8, <1>9 DEF IsInjective
<1>11. \A i \in DOMAIN s : \E j \in DOMAIN s : m[j] = s[i]
  <2> TAKE i \in DOMAIN s
  <2>1. CASE i < k BY <1>1, <1>9, <2>1
  <2>2. CASE i = k BY <1>1, <1>9, <2>2
  <2>3. CASE i > k
    <3>1. i - 1 \in DOMAIN s /\ i - 1 # Len(s) /\ ~(i - 1 < k) /\ (i - 1) + 1 = i BY <1>1, <2>3
    <3> QED BY <1>9, <3>1
  <2> QED BY <1>1, <2>1, <2>2, <2>3
<1>12. \A i \in DOMAIN m : m[i] \in ToSet(s) BY <1>1, <1>8, <1>9 DEF ToSet
<1>13. ToSet(m) = ToSet(s) BY <1>8, <1>11, <1>12 DEF ToSet
<1> QED BY <1>6, <1>7, <1>10, <1>13 DEF m, x

(* What holds of records, use, lru and uses between any two questions. *)
Core(rec, u, lr, us) ==
    /\ rec \in [Indices -> Hostnames \cup {NoHost}] /\ u \in 0 .. MaxRecords
    /\ lr \in Seq(Indices) /\ us \in Seq(Hostnames)
    /\ IsInjective(lr) /\ ToSet(lr) = 0 .. u - 1 /\ Len(lr) = u
    /\ IsInjective(us) /\ u = IF Len(us) < MaxRecords THEN Len(us) ELSE MaxRecords
    /\ \A i \in Indices : rec[i] # NoHost <=> i \in 0 .. u - 1
    /\ \A i, j \in 0 .. u - 1 : rec[i] = rec[j] => i = j
    /\ \A k \in 1 .. u : rec[lr[k]] = us[Len(us) - u + k]

LEMMA CoreFacts ==
    ASSUME NEW rec, NEW u, NEW lr, NEW us, Core(rec, u, lr, us)
    PROVE  /\ MaxRecords \in Nat /\ u \in Nat /\ Len(us) \in Nat /\ u <= Len(us) /\ u <= MaxRecords
           /\ 0 .. u - 1 \subseteq Indices /\ DOMAIN lr = 1 .. u /\ DOMAIN us = 1 .. Len(us)
           /\ \A i \in 0 .. u - 1 : rec[i] \in Hostnames /\ \E k \in 1 .. u : lr[k] = i
           /\ \A k \in 1 .. u : lr[k] \in 0 .. u - 1
<1>1. MaxRecords \in Nat /\ u \in Nat /\ Len(us) \in Nat /\ u <= Len(us) /\ u <= MaxRecords
  BY RecordsAssumption DEF Core
<1>2. 0 .. u - 1 \subseteq Indices BY <1>1 DEF Indices
<1>3. DOMAIN lr = 1 .. u /\ DOMAIN us = 1 .. Len(us) BY DEF Core
<1>4. \A i \in 0 .. u - 1 : rec[i] \in Hostnames BY <1>2 DEF Core
<1>5. \A i \in 0 .. u - 1 : \E k \in 1 .. u : lr[k] = i BY <1>3 DEF Core, ToSet
<1>6. \A k \in 1 .. u : lr[k] \in 0 .. u - 1 BY <1>3 DEF Core, ToSet
<1> QED BY <1>1, <1>2, <1>3, <1>4, <1>5, <1>6

LEMMA CoreMapped ==
    ASSUME NEW rec, NEW u, NEW lr, NEW us, Core(rec, u, lr, us), NEW idx \in 0 .. u - 1
    PROVE  Core(rec, u, MovedToEnd(lr, idx), MovedToEnd(us, rec[idx]))
<1>1. PICK p \in 1 .. u : lr[p] = idx BY CoreFacts
<1> DEFINE q == Len(us) - u + p
           lr2 == MovedToEnd(lr, idx)
           us2 == MovedToEnd(us, rec[idx])
<1>2. q \in 1 .. Len(us) /\ us[q] = rec[idx]
  <2>1. us[q] = rec[idx] BY <1>1 DEF Core
  <2> QED BY <2>1, CoreFacts
<1>3. p \in 1 .. Len(lr) BY DEF Core
<1>4. /\ lr2 \in Seq(Indices) /\ Shifted(lr2, lr, p, idx)
      /\ IsInjective(lr2) /\ ToSet(lr2) = ToSet(lr)
  BY <1>1, <1>3, MovedOld DEF Core
<1>5. /\ us2 \in Seq(Hostnames) /\ Shifted(us2, us, q, rec[idx])
      /\ IsInjective(us2) /\ ToSet(us2) = ToSet(us)
  BY <1>2, MovedOld DEF Core
<1> HIDE DEF lr2, us2, q
<1>6. Len(lr2) = u /\ Len(us2) = Len(us) BY <1>4, <1>5 DEF Shifted, Core
<1>7. ASSUME NEW k \in 1 .. u PROVE rec[lr2[k]] = us2[Len(us) - u + k]
  <2>0. u \in Nat /\ Len(us) \in Nat /\ u <= Len(us) /\ Len(lr) = u BY CoreFacts DEF Core
  <2>1. CASE k = u
    BY <1>4, <1>5, <2>0, <2>1 DEF Shifted
  <2>2. CASE k < p
    <3>1. k \in 1 .. u - 1 /\ Len(us) - u + k \in 1 .. Len(us) - 1 /\ Len(us) - u + k < q
      BY <2>0, <2>2 DEF q
    <3>2. lr2[k] = lr[k] BY <1>4, <2>0, <2>2, <3>1 DEF Shifted
    <3>3. us2[Len(us) - u + k] = us[Len(us) - u + k] BY <1>5, <3>1 DEF Shifted
    <3> QED BY <3>2, <3>3 DEF Core
  <2>3. CASE k >= p /\ k < u
    <3>1. /\ k \in 1 .. u - 1 /\ Len(us) - u + k \in 1 .. Len(us) - 1 /\ ~(Len(us) - u + k < q)
          /\ ~(k < p) /\ Len(us) - u + k + 1 = Len(us) - u + (k + 1) /\ k + 1 \in 1 .. u
      BY <2>0, <2>3 DEF q
    <3>2. lr2[k] = lr[k + 1] BY <1>4, <2>0, <3>1 DEF Shifted
    <3>3. us2[Len(us) - u + k] = us[Len(us) - u + (k + 1)] BY <1>5, <3>1 DEF Shifted
    <3> QED BY <3>1, <3>2, <3>3 DEF Core
  <2> QED BY <2>0, <2>1, <2>2, <2>3
<1> QED BY <1>4, <1>5, <1>6, <1>7 DEF Core, lr2, us2

Unmapped(rec, name) == name \in Hostnames /\ \A i \in Indices : rec[i] # name

(* The names in the table are those used last. *)
LEMMA RecentIsMapped ==
    ASSUME NEW rec, NEW u, NEW lr, NEW us, Core(rec, u, lr, us), NEW n \in Recent(us)
    PROVE  \E i \in 0 .. u - 1 : rec[i] = n
<1>1. PICK j \in 1 .. Len(us) : j > Len(us) - MaxRecords /\ us[j] = n
  BY CoreFacts DEF Recent
<1>2. j > Len(us) - u BY <1>1, CoreFacts DEF Core
<1>3. j - (Len(us) - u) \in 1 .. u /\ Len(us) - u + (j - (Len(us) - u)) = j BY <1>2, CoreFacts
<1>4. rec[lr[j - (Len(us) - u)]] = n BY <1>1, <1>3 DEF Core
<1> QED BY <1>3, <1>4, CoreFacts

LEMMA CoreFree ==
    ASSUME NEW rec, NEW u, NEW lr, NEW us, Core(rec, u, lr, us), u < MaxRecords,
           NEW name, Unmapped(rec, name)
    PROVE  Core([rec EXCEPT ![u] = name], u + 1, MovedToEnd(lr, u), MovedToEnd(us, name))
<1> DEFINE rec2 == [rec EXCEPT ![u] = name]
           lr2 == MovedToEnd(lr, u)
           us2 == MovedToEnd(us, name)
<1>1. u \in Nat /\ Len(us) = u /\ MaxRecords \in Nat /\ Len(lr) = u
  <2>1. u \in Nat /\ MaxRecords \in Nat /\ Len(us) \in Nat BY CoreFacts
  <2>2. Len(lr) = u BY DEF Core
  <2>3. u = IF Len(us) < MaxRecords THEN Len(us) ELSE MaxRecords BY DEF Core
  <2> QED BY <2>1, <2>2, <2>3
<1>2. u \in Indices /\ u \notin ToSet(lr) BY <1>1 DEF Core, Indices
<1>3. name \notin ToSet(us)
  <2>1. SUFFICES ASSUME NEW j \in 1 .. Len(us), us[j] = name PROVE FALSE
    BY CoreFacts DEF ToSet
  <2>2. j \in 1 .. u /\ Len(us) - u + j = j BY <1>1
  <2>3. rec[lr[j]] = name BY <2>1, <2>2 DEF Core
  <2>4. lr[j] \in Indices BY <2>2, CoreFacts
  <2> QED BY <2>3, <2>4 DEF Unmapped
<1>4. /\ lr2 \in Seq(Indices) /\ Extended(lr2, lr, u)
      /\ IsInjective(lr2) /\ ToSet(lr2) = ToSet(lr) \cup {u}
  BY <1>2, MovedNew DEF Core
<1>5. /\ us2 \in Seq(Hostnames) /\ Extended(us2, us, name) /\ IsInjective(us2)
  BY <1>3, MovedNew DEF Core, Unmapped
<1> HIDE DEF lr2, us2
<1>6. rec2 \in [Indices -> Hostnames \cup {NoHost}] BY <1>2 DEF Core, Unmapped
<1>7. rec2[u] = name /\ \A i \in Indices : i # u => rec2[i] = rec[i] BY <1>2 DEF Core
<1> HIDE DEF rec2
<1>8. Len(lr2) = u + 1 /\ Len(us2) = u + 1 BY <1>1, <1>4, <1>5 DEF Extended
<1>9. ToSet(lr2) = 0 .. (u + 1) - 1
  <2>1. 0 .. (u + 1) - 1 = (0 .. u - 1) \cup {u} BY <1>1
  <2> QED BY <1>4, <2>1 DEF Core
<1>10. \A i \in Indices : rec2[i] # NoHost <=> i \in 0 .. (u + 1) - 1
  <2> TAKE i \in Indices
  <2>1. CASE i = u BY <1>1, <1>7, <2>1, RecordsAssumption DEF Unmapped
  <2>2. CASE i # u
    <3>1. i \in 0 .. (u + 1) - 1 <=> i \in 0 .. u - 1 BY <1>1, <2>2 DEF Indices
    <3> QED BY <1>7, <2>2, <3>1 DEF Core
  <2> QED BY <2>1, <2>2
<1>11. ASSUME NEW i \in 0 .. (u + 1) - 1, NEW j \in 0 .. (u + 1) - 1, rec2[i] = rec2[j]
       PROVE  i = j
  <2>1. i \in Indices /\ j \in Indices BY <1>1 DEF Indices
  <2>2. i \in 0 .. u - 1 \/ i = u BY <1>1
  <2>3. j \in 0 .. u - 1 \/ j = u BY <1>1
  <2> QED BY <1>7, <1>11, <2>1, <2>2, <2>3 DEF Core, Unmapped
<1>12. ASSUME NEW k \in 1 .. u + 1 PROVE rec2[lr2[k]] = us2[Len(us2) - (u + 1) + k]
  <2>1. Len(us2) - (u + 1) + k = k BY <1>1, <1>8
  <2>2. CASE k = u + 1 BY <1>1, <1>4, <1>5, <1>7, <2>1, <2>2 DEF Extended
  <2>3. CASE k # u + 1
    <3>1. k \in 1 .. u /\ Len(us) - u + k = k BY <1>1, <2>3
    <3>2. lr2[k] = lr[k] /\ us2[k] = us[k] BY <1>1, <1>4, <1>5, <3>1 DEF Extended
    <3>3. lr[k] \in Indices /\ lr[k] # u
      <4>1. lr[k] \in 0 .. u - 1 /\ 0 .. u - 1 \subseteq Indices BY <3>1, CoreFacts
      <4> QED BY <1>1, <4>1
    <3>4. rec[lr[k]] = us[k] BY <3>1 DEF Core
    <3> QED BY <1>7, <2>1, <3>2, <3>3, <3>4
  <2> QED BY <2>2, <2>3
<1>13. u + 1 \in 0 .. MaxRecords /\ u + 1 = IF Len(us2) < MaxRecords THEN Len(us2) ELSE MaxRecords
  BY <1>1, <1>8
<1> QED BY <1>4, <1>5, <1>6, <1>8, <1>9, <1>10, <1>11, <1>12, <1>13 DEF Core, rec2, lr2, us2

LEMMA CoreTaken ==
    ASSUME NEW rec, NEW u, NEW lr, NEW us, Core(rec, u, lr, us), u = MaxRecords,
           NEW name, Unmapped(rec, name)
    PROVE  Core([rec EXCEPT ![lr[1]] = name], u, MovedToEnd(lr, lr[1]), MovedToEnd(us, name))
<1> DEFINE idx == lr[1]
           rec2 == [rec EXCEPT ![idx] = name]
           lr2 == MovedToEnd(lr, idx)
           us2 == MovedToEnd(us, name)
           older == Len(us) - u
<1>1. u \in Nat /\ u > 0 /\ Len(us) \in Nat /\ u <= Len(us) /\ Len(lr) = u
  BY CoreFacts, RecordsAssumption DEF Core
<1>2. 1 \in 1 .. Len(lr) /\ idx \in 0 .. u - 1 /\ idx \in Indices BY <1>1, CoreFacts
<1>3. /\ lr2 \in Seq(Indices) /\ Shifted(lr2, lr, 1, idx)
      /\ IsInjective(lr2) /\ ToSet(lr2) = ToSet(lr)
  BY <1>2, MovedOld DEF Core
<1>4. rec2 \in [Indices -> Hostnames \cup {NoHost}] BY <1>2 DEF Core, Unmapped
<1>5. rec2[idx] = name /\ \A i \in Indices : i # idx => rec2[i] = rec[i] BY <1>2 DEF Core
<1> HIDE DEF rec2, lr2
<1>6. Len(lr2) = u /\ lr2[u] = idx /\ \A k \in 1 .. u - 1 : lr2[k] = lr[k + 1]
  BY <1>1, <1>3 DEF Shifted
<1>7. \A k \in 1 .. u - 1 : lr[k + 1] \in Indices /\ lr[k + 1] # idx
  <2> TAKE k \in 1 .. u - 1
  <2>1. k + 1 \in DOMAIN lr /\ 1 \in DOMAIN lr /\ k + 1 # 1 /\ k + 1 \in 1 .. u BY <1>1, CoreFacts
  <2> QED BY <2>1, CoreFacts DEF Core, IsInjective
<1>8. /\ us2 \in Seq(Hostnames) /\ IsInjective(us2) /\ Len(us2) >= Len(us) /\ Len(us2) \in Nat
      /\ us2[Len(us2)] = name
      /\ \A k \in 1 .. u - 1 : us2[Len(us2) - u + k] = us[older + (k + 1)]
  <2>1. CASE name \notin ToSet(us)
    <3>1. us2 \in Seq(Hostnames) /\ IsInjective(us2) /\ Extended(us2, us, name)
      BY <2>1, MovedNew DEF Core, Unmapped
    <3> HIDE DEF us2
    <3>2. Len(us2) = Len(us) + 1 /\ us2[Len(us) + 1] = name BY <3>1 DEF Extended
    <3>3. ASSUME NEW k \in 1 .. u - 1 PROVE us2[Len(us2) - u + k] = us[older + (k + 1)]
      <4>1. Len(us2) - u + k = older + (k + 1) /\ older + (k + 1) \in 1 .. Len(us) BY <1>1, <3>2
      <4> QED BY <3>1, <4>1 DEF Extended
    <3> QED BY <1>1, <3>1, <3>2, <3>3
  <2>2. CASE name \in ToSet(us)
    <3>1. PICK q \in 1 .. Len(us) : us[q] = name BY <2>2, CoreFacts DEF ToSet
    <3>2. q <= older
      <4>1. SUFFICES ASSUME q > older PROVE FALSE BY <1>1
      <4>2. q - older \in 1 .. u /\ Len(us) - u + (q - older) = q BY <1>1, <4>1
      <4>3. rec[lr[q - older]] = name BY <3>1, <4>2 DEF Core
      <4>4. lr[q - older] \in Indices BY <4>2, CoreFacts
      <4> QED BY <4>3, <4>4 DEF Unmapped
    <3>3. us2 \in Seq(Hostnames) /\ IsInjective(us2) /\ Shifted(us2, us, q, name)
      BY <3>1, MovedOld DEF Core
    <3> HIDE DEF us2
    <3>4. Len(us2) = Len(us) /\ us2[Len(us)] = name BY <3>3 DEF Shifted
    <3>5. ASSUME NEW k \in 1 .. u - 1 PROVE us2[Len(us2) - u + k] = us[older + (k + 1)]
      <4>1. /\ older + k \in 1 .. Len(us) - 1 /\ ~(older + k < q)
            /\ Len(us2) - u + k = older + k /\ older + (k + 1) = (older + k) + 1
        BY <1>1, <3>2, <3>4
      <4> QED BY <3>3, <4>1 DEF Shifted
    <3> QED BY <1>1, <3>3, <3>4, <3>5
  <2> QED BY <2>1, <2>2
<1> HIDE DEF us2
<1>9. \A i \in Indices : rec2[i] # NoHost <=> i \in 0 .. u - 1
  <2> TAKE i \in Indices
  <2>1. CASE i = idx BY <1>2, <1>5, <2>1, RecordsAssumption DEF Unmapped
  <2>2. CASE i # idx BY <1>5, <2>2 DEF Core
  <2> QED BY <2>1, <2>2
<1>10. ASSUME NEW i \in 0 .. u - 1, NEW j \in 0 .. u - 1, rec2[i] = rec2[j] PROVE i = j
  <2>1. i \in Indices /\ j \in Indices BY CoreFacts
  <2>2. rec[i] = rec[j] => i = j BY DEF Core
  <2> QED BY <1>5, <1>10, <2>1, <2>2 DEF Unmapped
<1>11. ASSUME NEW k \in 1 .. u PROVE rec2[lr2[k]] = us2[Len(us2) - u + k]
  <2>1. CASE k = u
    <3>1. Len(us2) - u + k = Len(us2) BY <1>1, <1>8, <2>1
    <3> QED BY <1>5, <1>6, <1>8, <2>1, <3>1
  <2>2. CASE k # u
    <3>1. k \in 1 .. u - 1 /\ k + 1 \in 1 .. u BY <1>1, <2>2
    <3>2. rec2[lr2[k]] = rec[lr[k + 1]] BY <1>5, <1>6, <1>7, <3>1
    <3>3. rec[lr[k + 1]] = us[older + (k + 1)] BY <3>1 DEF Core
    <3> QED BY <1>8, <3>1, <3>2, <3>3
  <2> QED BY <2>1, <2>2
<1>12. u = IF Len(us2) < MaxRecords THEN Len(us2) ELSE MaxRecords BY <1>1, <1>8
<1> QED BY <1>3, <1>4, <1>6, <1>8, <1>9, <1>10, <1>11, <1>12 DEF Core, rec2, lr2, us2

Promises == [Hostnames -> Indices \cup {-1}]

(* What is promised is kept. *)
Serves(rec, p) == p \in Promises /\ \A n \in Hostnames : p[n] # -1 => rec[p[n]] = n

(* A name whose address goes to another is no longer recent. *)
LEMMA KeptServes ==
    ASSUME NEW rec, NEW u, NEW lr, NEW us, Core(rec, u, lr, us),
           NEW idx \in Indices, NEW name \in Hostnames,
           NEW u2, NEW lr2, NEW us2, Core([rec EXCEPT ![idx] = name], u2, lr2, us2),
           NEW p, Serves(rec, p)
    PROVE  Serves([rec EXCEPT ![idx] = name], Kept(p, us2))
<1> DEFINE rec2 == [rec EXCEPT ![idx] = name]
           kept == Kept(p, us2)
<1>1. kept \in Promises BY DEF Kept, Promises, Serves
<1>2. rec2[idx] = name /\ \A i \in Indices : i # idx => rec2[i] = rec[i] BY DEF Core
<1>0. Core(rec2, u2, lr2, us2) OBVIOUS
<1> HIDE DEF rec2
<1>3. ASSUME NEW n \in Hostnames, kept[n] # -1 PROVE rec2[kept[n]] = n
  <2>1. n \in Recent(us2) /\ kept[n] = p[n] BY <1>3 DEF Kept
  <2>2. p[n] \in Indices /\ rec[p[n]] = n BY <1>3, <2>1 DEF Serves, Promises
  <2>3. CASE p[n] # idx BY <1>2, <2>1, <2>2, <2>3
  <2>4. CASE p[n] = idx
    <3>1. PICK i \in 0 .. u2 - 1 : rec2[i] = n BY <1>0, <2>1, RecentIsMapped
    <3>2. i \in Indices BY <1>0, CoreFacts
    <3>3. CASE i = idx BY <2>1, <2>4, <3>1, <3>3
    <3>4. CASE i # idx
      <4>1. rec[i] = n BY <1>2, <3>1, <3>2, <3>4
      <4>2. i \in 0 .. u - 1 /\ idx \in 0 .. u - 1
        BY <2>2, <2>4, <3>2, <4>1, RecordsAssumption DEF Core
      <4> QED BY <2>2, <2>4, <3>4, <4>1, <4>2 DEF Core
    <3> QED BY <3>3, <3>4
  <2> QED BY <2>3, <2>4
<1> QED BY <1>1, <1>3 DEF Serves, rec2

Tabled(A, B, C, D, P) == [records : A, use : B, lru : C, uses : D, told : P, said : P]

TableType ==
    Tabled([Indices -> Hostnames \cup {NoHost}], 0 .. MaxRecords, Seq(Indices), Seq(Hostnames), Promises)

DnsOK(t) ==
    /\ t \in TableType
    /\ Core(t.records, t.use, t.lru, t.uses)
    /\ Serves(t.records, t.told) /\ Serves(t.records, t.said)

LEMMA UsedFields ==
    ASSUME NEW A, NEW B, NEW C, NEW D, NEW P, NEW t \in Tabled(A, B, C, D, P), NEW name, NEW idx,
           MovedToEnd(t.lru, idx) \in C, MovedToEnd(t.uses, name) \in D,
           Kept(t.told, MovedToEnd(t.uses, name)) \in P, Kept(t.said, MovedToEnd(t.uses, name)) \in P
    PROVE  /\ Used(t, name, idx) \in Tabled(A, B, C, D, P)
           /\ Used(t, name, idx).records = t.records
           /\ Used(t, name, idx).use = t.use
           /\ Used(t, name, idx).lru = MovedToEnd(t.lru, idx)
           /\ Used(t, name, idx).uses = MovedToEnd(t.uses, name)
           /\ Used(t, name, idx).told = Kept(t.told, MovedToEnd(t.uses, name))
           /\ Used(t, name, idx).said = Kept(t.said, MovedToEnd(t.uses, name))
<1> DEFINE a == MovedToEnd(t.lru, idx)
           b == MovedToEnd(t.uses, name)
           c == Kept(t.told, b)
           d == Kept(t.said, b)
           v == [t EXCEPT !.lru = a, !.uses = b, !.told = c, !.said = d]
<1>1. Used(t, name, idx) = v BY DEF Used
<1>2. a \in C /\ b \in D /\ c \in P /\ d \in P OBVIOUS
<1> HIDE DEF a, b, c, d
<1>3. v \in Tabled(A, B, C, D, P) BY <1>2 DEF Tabled
<1>4. v.records = t.records /\ v.use = t.use /\ v.lru = a BY DEF Tabled
<1>5. v.uses = b /\ v.told = c /\ v.said = d BY DEF Tabled
<1> HIDE DEF v
<1> QED BY <1>1, <1>3, <1>4, <1>5 DEF a, b, c, d

LEMMA SaidServes ==
    ASSUME NEW rec, NEW p, Serves(rec, p), NEW idx \in Indices, NEW name \in Hostnames, rec[idx] = name
    PROVE  Serves(rec, [p EXCEPT ![name] = idx])
BY DEF Serves, Promises

LEMMA SaidOK ==
    ASSUME NEW v, DnsOK(v), NEW name, NEW idx, Serves(v.records, [v.said EXCEPT ![name] = idx])
    PROVE  DnsOK([v EXCEPT !.said[name] = idx])
<1> DEFINE said2 == [v.said EXCEPT ![name] = idx]
           w == [v EXCEPT !.said = said2]
<1>1. [v EXCEPT !.said[name] = idx] = w OBVIOUS
<1>2. v \in TableType BY DEF DnsOK
<1>3. said2 \in Promises BY DEF Serves
<1> HIDE DEF said2
<1>4. w \in TableType BY <1>2, <1>3 DEF TableType, Tabled
<1>5. /\ w.records = v.records /\ w.use = v.use /\ w.lru = v.lru /\ w.uses = v.uses
      /\ w.told = v.told /\ w.said = said2
  BY <1>2 DEF TableType, Tabled
<1> HIDE DEF w
<1>6. DnsOK(w) BY <1>4, <1>5 DEF DnsOK, said2
<1> QED BY <1>1, <1>6 DEF w

LEMMA CoreType ==
    ASSUME NEW rec, NEW u, NEW lr, NEW us, Core(rec, u, lr, us)
    PROVE  /\ rec \in [Indices -> Hostnames \cup {NoHost}] /\ u \in 0 .. MaxRecords
           /\ lr \in Seq(Indices) /\ us \in Seq(Hostnames)
BY DEF Core

(* A use of a name at its address, which may just have become its own. *)
LEMMA UsedOK ==
    ASSUME NEW t, DnsOK(t), NEW name \in Hostnames, NEW idx \in Indices, NEW u2,
           Core([t.records EXCEPT ![idx] = name], u2, MovedToEnd(t.lru, idx), MovedToEnd(t.uses, name)),
           NEW s \in TableType, s.records = [t.records EXCEPT ![idx] = name], s.use = u2,
           s.lru = t.lru, s.uses = t.uses, s.told = t.told, s.said = t.said
    PROVE  DnsOK(Used(s, name, idx)) /\ Used(s, name, idx).records[idx] = name
<1> DEFINE rec2 == [t.records EXCEPT ![idx] = name]
           lr2 == MovedToEnd(t.lru, idx)
           us2 == MovedToEnd(t.uses, name)
           v == Used(s, name, idx)
<1>1. Core(t.records, t.use, t.lru, t.uses) /\ Core(rec2, u2, lr2, us2) BY DEF DnsOK
<1>2. Serves(rec2, Kept(t.told, us2)) BY <1>1, KeptServes DEF DnsOK
<1>3. Serves(rec2, Kept(t.said, us2)) BY <1>1, KeptServes DEF DnsOK
<1>4. rec2[idx] = name BY <1>1 DEF Core
<1> HIDE DEF rec2, lr2, us2
<1>5. lr2 \in Seq(Indices) /\ us2 \in Seq(Hostnames) BY <1>1, CoreType
<1>6. Kept(t.told, us2) \in Promises /\ Kept(t.said, us2) \in Promises BY <1>2, <1>3 DEF Serves
<1>7. MovedToEnd(s.lru, idx) = lr2 /\ MovedToEnd(s.uses, name) = us2 BY DEF lr2, us2
<1>8. /\ v \in TableType /\ v.records = s.records /\ v.use = s.use
      /\ v.lru = lr2 /\ v.uses = us2 /\ v.told = Kept(t.told, us2) /\ v.said = Kept(t.said, us2)
  BY <1>5, <1>6, <1>7, UsedFields DEF TableType
<1> HIDE DEF v
<1>9. v.records = rec2 /\ v.use = u2 BY <1>8 DEF rec2
<1>10. DnsOK(v) BY <1>1, <1>2, <1>3, <1>8, <1>9 DEF DnsOK
<1> QED BY <1>4, <1>9, <1>10 DEF v

Given(t, idx, name, u2) == [t EXCEPT !.records[idx] = name, !.use = u2]

LEMMA GivenFields ==
    ASSUME NEW t \in TableType, NEW idx \in Indices, NEW name \in Hostnames, NEW u2 \in 0 .. MaxRecords
    PROVE  /\ Given(t, idx, name, u2) \in TableType
           /\ Given(t, idx, name, u2).records = [t.records EXCEPT ![idx] = name]
           /\ Given(t, idx, name, u2).use = u2
           /\ Given(t, idx, name, u2).lru = t.lru /\ Given(t, idx, name, u2).uses = t.uses
           /\ Given(t, idx, name, u2).told = t.told /\ Given(t, idx, name, u2).said = t.said
<1> DEFINE rec2 == [t.records EXCEPT ![idx] = name]
           s == [t EXCEPT !.records = rec2, !.use = u2]
<1>1. rec2 \in [Indices -> Hostnames \cup {NoHost}] BY DEF TableType, Tabled
<1>2. Given(t, idx, name, u2) = s BY DEF Given
<1> HIDE DEF rec2
<1>3. s \in TableType BY <1>1 DEF TableType, Tabled
<1>4. s.records = rec2 /\ s.use = u2 BY DEF TableType, Tabled
<1>5. s.lru = t.lru /\ s.uses = t.uses /\ s.told = t.told /\ s.said = t.said BY DEF TableType, Tabled
<1> HIDE DEF s
<1> QED BY <1>2, <1>3, <1>4, <1>5 DEF rec2

LEMMA FoundOK ==
    ASSUME NEW t, DnsOK(t), NEW name \in Hostnames
    PROVE  DnsOK(Found(t, name))
<1> DEFINE idx == AddressFor(t, name)
           new == IF ~Mapped(t, name) /\ t.use < MaxRecords THEN 1 ELSE 0
           rec2 == [t.records EXCEPT ![idx] = name]
           lr2 == MovedToEnd(t.lru, idx)
           us2 == MovedToEnd(t.uses, name)
           s == Given(t, idx, name, t.use + new)
           v == Used(s, name, idx)
<1>1. Found(t, name) = [v EXCEPT !.said[name] = idx] BY DEF Found, Given
<1>2. Core(t.records, t.use, t.lru, t.uses) BY DEF DnsOK
<1>3. idx \in Indices /\ Core(rec2, t.use + new, lr2, us2)
  <2>1. CASE Mapped(t, name)
    <3>1. idx \in Indices /\ t.records[idx] = name BY <2>1 DEF AddressFor, Mapped
    <3>2. t.use + new = t.use BY <1>2, <2>1, CoreFacts
    <3> HIDE DEF idx
    <3>3. idx \in 0 .. t.use - 1 BY <1>2, <3>1, RecordsAssumption DEF Core
    <3>4. rec2 = t.records BY <1>2, <3>1 DEF Core
    <3>5. Core(t.records, t.use, MovedToEnd(t.lru, idx), MovedToEnd(t.uses, t.records[idx]))
      BY <1>2, <3>3, CoreMapped
    <3> QED BY <3>1, <3>2, <3>4, <3>5
  <2>2. CASE ~Mapped(t, name) /\ t.use < MaxRecords
    <3>1. Unmapped(t.records, name) BY <2>2 DEF Unmapped, Mapped
    <3>2. idx = t.use /\ new = 1 BY <2>2 DEF AddressFor
    <3>3. t.use \in Indices BY <1>2, <2>2, CoreFacts DEF Indices
    <3>4. Core([t.records EXCEPT ![t.use] = name], t.use + 1, MovedToEnd(t.lru, t.use), MovedToEnd(t.uses, name))
      BY <1>2, <2>2, <3>1, CoreFree
    <3> QED BY <3>2, <3>3, <3>4
  <2>3. CASE ~Mapped(t, name) /\ ~(t.use < MaxRecords)
    <3>1. Unmapped(t.records, name) BY <2>3 DEF Unmapped, Mapped
    <3>2. t.use = MaxRecords BY <1>2, <2>3, CoreFacts
    <3>3. idx = t.lru[1] /\ t.use + new = t.use BY <1>2, <2>3, CoreFacts DEF AddressFor
    <3>4. t.lru[1] \in Indices
      <4>1. 1 \in 1 .. t.use BY <3>2, RecordsAssumption
      <4> QED BY <1>2, <4>1, CoreFacts
    <3>5. Core([t.records EXCEPT ![t.lru[1]] = name], t.use, MovedToEnd(t.lru, t.lru[1]), MovedToEnd(t.uses, name))
      BY <1>2, <3>1, <3>2, CoreTaken
    <3> QED BY <3>3, <3>4, <3>5
  <2> QED BY <2>1, <2>2, <2>3
<1> HIDE DEF idx, new
<1>4. t.use + new \in 0 .. MaxRecords BY <1>3, CoreType
<1>5. t \in TableType BY DEF DnsOK
<1>6. /\ s \in TableType /\ s.records = rec2 /\ s.use = t.use + new
      /\ s.lru = t.lru /\ s.uses = t.uses /\ s.told = t.told /\ s.said = t.said
  BY <1>3, <1>4, <1>5, GivenFields
<1> HIDE DEF s
<1>7. DnsOK(v) /\ v.records[idx] = name BY <1>3, <1>6, UsedOK
<1> HIDE DEF v
<1>8. Serves(v.records, [v.said EXCEPT ![name] = idx]) BY <1>3, <1>7, SaidServes DEF DnsOK
<1> QED BY <1>1, <1>7, <1>8, SaidOK

LEMMA AskedOK ==
    ASSUME NEW t, DnsOK(t), NEW name \in Hostnames \cup {NoHost}, NEW starved
    PROVE  DnsOK(Asked(t, name, starved))
BY FoundOK DEF Asked

LEMMA LookedUpOK ==
    ASSUME NEW t, DnsOK(t), NEW idx \in Indices, t.records[idx] # NoHost
    PROVE  DnsOK(Used(t, t.records[idx], idx))
<1> DEFINE name == t.records[idx]
           us2 == MovedToEnd(t.uses, name)
           lr2 == MovedToEnd(t.lru, idx)
<1>1. Core(t.records, t.use, t.lru, t.uses) /\ t \in TableType BY DEF DnsOK
<1>2. idx \in 0 .. t.use - 1 /\ name \in Hostnames BY <1>1 DEF Core
<1>3. Core(t.records, t.use, lr2, us2) BY <1>1, <1>2, CoreMapped
<1>4. t.records = [t.records EXCEPT ![idx] = name] BY <1>1 DEF Core
<1> HIDE DEF lr2, us2, name
<1>5. Core([t.records EXCEPT ![idx] = name], t.use, lr2, us2) BY <1>3, <1>4
<1> QED BY <1>1, <1>2, <1>4, <1>5, UsedOK DEF lr2, us2, name

(* There are tables after the first questions, however many: each is made  *)
(* of the one before it.                                                   *)
Run(g, n, query, starved) ==
    g = [k \in 0 .. n |-> IF k = 0 THEN Table ELSE Asked(g[k - 1], query[k], starved)]

LEMMA RunsExist ==
    ASSUME NEW query, NEW starved
    PROVE  \A n \in Nat : \E g : Run(g, n, query, starved)
<1> DEFINE T == {n \in Nat : \E g : Run(g, n, query, starved)}
<1>1. 0 \in T
  <2>1. Run([k \in 0 .. 0 |-> Table], 0, query, starved) BY DEF Run
  <2> QED BY <2>1
<1>2. ASSUME NEW n \in T PROVE n + 1 \in T
  <2>1. PICK g : Run(g, n, query, starved) OBVIOUS
  <2> DEFINE h == [k \in 0 .. n + 1 |-> IF k <= n THEN g[k] ELSE Asked(g[n], query[n + 1], starved)]
  <2>2. n \in Nat /\ n + 1 \in Nat OBVIOUS
  <2>3. g = [k \in 0 .. n |-> IF k = 0 THEN Table ELSE Asked(g[k - 1], query[k], starved)]
    BY <2>1 DEF Run
  <2>4. ASSUME NEW k \in 0 .. n + 1
        PROVE  h[k] = IF k = 0 THEN Table ELSE Asked(h[k - 1], query[k], starved)
    <3>1. CASE k = 0
      <4>1. k \in 0 .. n /\ k <= n BY <2>2, <3>1
      <4>2. g[k] = Table BY <2>3, <3>1, <4>1
      <4> QED BY <3>1, <4>1, <4>2
    <3>2. CASE k # 0 /\ k <= n
      <4>1. k \in 0 .. n /\ k - 1 \in 0 .. n + 1 /\ k - 1 <= n BY <2>2, <3>2
      <4>2. h[k] = g[k] /\ h[k - 1] = g[k - 1] BY <3>2, <4>1
      <4>3. g[k] = Asked(g[k - 1], query[k], starved) BY <2>3, <3>2, <4>1
      <4> QED BY <3>2, <4>2, <4>3
    <3>3. CASE k = n + 1
      <4>1. k - 1 = n /\ n \in 0 .. n + 1 /\ ~(k <= n) /\ k # 0 BY <2>2, <3>3
      <4>2. h[k] = Asked(g[n], query[k], starved) BY <3>3, <4>1
      <4>3. h[k - 1] = g[n] BY <2>2, <4>1
      <4> QED BY <4>1, <4>2, <4>3
    <3>4. k = 0 \/ (k # 0 /\ k <= n) \/ k = n + 1 BY <2>2
    <3> QED BY <3>1, <3>2, <3>3, <3>4
  <2>5. h = [k \in 0 .. n + 1 |-> h[k]] OBVIOUS
  <2> HIDE DEF h
  <2>6. Run(h, n + 1, query, starved)
    <3>1. [k \in 0 .. n + 1 |-> h[k]]
            = [k \in 0 .. n + 1 |-> IF k = 0 THEN Table ELSE Asked(h[k - 1], query[k], starved)]
      BY <2>4
    <3> QED BY <2>5, <3>1 DEF Run
  <2> QED BY <2>2, <2>6
<1> HIDE DEF T
<1>3. \A n \in Nat : n \in T
  <2>1. T \in SUBSET Nat BY DEF T
  <2> QED BY <1>1, <1>2, <2>1, Counting
<1> QED BY <1>3 DEF T

LEMMA TablesRun ==
    ASSUME NEW query, NEW starved, Len(query) \in Nat
    PROVE  Run(Tables(query, starved), Len(query), query, starved)
<1>1. PICK g : Run(g, Len(query), query, starved) BY RunsExist
<1> QED BY <1>1 DEF Run, Tables

(* Every question leaves the table in order, hence all of them do. *)
LEMMA TablesOK ==
    ASSUME DnsOK(Table), NEW query \in Seq(Hostnames \cup {NoHost}), NEW starved
    PROVE  DnsOK(Tables(query, starved)[Len(query)])
<1> DEFINE g == Tables(query, starved)
           T == {n \in Nat : n <= Len(query) => DnsOK(g[n])}
<1>1. Len(query) \in Nat OBVIOUS
<1>2. g = [k \in 0 .. Len(query) |-> IF k = 0 THEN Table ELSE Asked(g[k - 1], query[k], starved)]
  BY <1>1, TablesRun DEF Run
<1> HIDE DEF g
<1>3. 0 \in T
  <2>1. g[0] = Table BY <1>1, <1>2
  <2> QED BY <2>1
<1>4. ASSUME NEW n \in T PROVE n + 1 \in T
  <2>1. SUFFICES ASSUME n + 1 <= Len(query) PROVE DnsOK(g[n + 1])
    OBVIOUS
  <2>2. n \in Nat /\ n + 1 \in 1 .. Len(query) /\ n <= Len(query) /\ (n + 1) - 1 = n
    BY <1>1, <2>1
  <2>3. g[n + 1] = Asked(g[n], query[n + 1], starved) BY <1>2, <2>2
  <2>4. query[n + 1] \in Hostnames \cup {NoHost} BY <2>2
  <2>5. DnsOK(g[n]) BY <2>2
  <2> QED BY <2>3, <2>4, <2>5, AskedOK
<1>5. \A n \in Nat : n \in T
  <2>1. T \in SUBSET Nat OBVIOUS
  <2> HIDE DEF T
  <2> QED BY <1>3, <1>4, <2>1, Counting
<1> QED BY <1>1, <1>5 DEF g

LEMMA AnsweredServes ==
    ASSUME NEW rec, NEW td, NEW sd, Serves(rec, td), Serves(rec, sd)
    PROVE  Serves(rec, [n \in Hostnames |-> IF sd[n] # -1 THEN sd[n] ELSE td[n]])
BY DEF Serves, Promises

LEMMA NothingSaid == ASSUME NEW rec PROVE Serves(rec, [n \in Hostnames |-> -1])
BY DEF Serves, Promises

(* Between the steps nothing is being said. *)
InOrder == Core(records, use, lru, uses) /\ Serves(records, told)

LEMMA TableOK == InOrder => DnsOK(Table)
<1> SUFFICES ASSUME InOrder PROVE DnsOK(Table)
  OBVIOUS
<1>1. Serves(records, [n \in Hostnames |-> -1]) BY NothingSaid
<1>2. told \in Promises /\ [n \in Hostnames |-> -1] \in Promises BY <1>1 DEF InOrder, Serves
<1>3. /\ records \in [Indices -> Hostnames \cup {NoHost}] /\ use \in 0 .. MaxRecords
      /\ lru \in Seq(Indices) /\ uses \in Seq(Hostnames)
  BY CoreType DEF InOrder
<1>4. Table \in TableType BY <1>2, <1>3 DEF Table, TableType, Tabled
<1> QED BY <1>1, <1>4 DEF DnsOK, Table, InOrder

LEMMA InOrderInit == DnsInit => InOrder
<1> SUFFICES ASSUME DnsInit PROVE InOrder
  OBVIOUS
<1>1. MaxRecords \in Nat /\ MaxRecords > 0 BY RecordsAssumption
<1>2. records \in [Indices -> Hostnames \cup {NoHost}] BY DEF DnsInit
<1>3. lru \in Seq(Indices) /\ uses \in Seq(Hostnames) /\ Len(lru) = 0 /\ Len(uses) = 0
  BY DEF DnsInit
<1>4. DOMAIN lru = {} /\ DOMAIN uses = {} BY DEF DnsInit
<1>5. IsInjective(lru) /\ IsInjective(uses) BY <1>4 DEF IsInjective
<1>6. ToSet(lru) = 0 .. 0 - 1 BY <1>4 DEF ToSet
<1>7. \A i \in Indices : records[i] = NoHost BY DEF DnsInit
<1>8. use = 0 /\ use \in 0 .. MaxRecords BY <1>1 DEF DnsInit
<1>9. Core(records, use, lru, uses) BY <1>1, <1>2, <1>3, <1>5, <1>6, <1>7, <1>8 DEF Core
<1>10. Serves(records, told) BY NothingSaid DEF DnsInit
<1> QED BY <1>9, <1>10 DEF InOrder

LEMMA BecomesOK ==
    ASSUME NEW t, DnsOK(t), records' = t.records, use' = t.use, lru' = t.lru, uses' = t.uses, Serves(t.records, told')
    PROVE  InOrder'
BY DEF DnsOK, InOrder

LEMMA HandlesOK ==
    ASSUME InOrder, NEW query \in Queries, NEW starved, NEW answered \in BOOLEAN,
           Handles(query, starved, answered)
    PROVE  InOrder'
<1> DEFINE end == Tables(query, starved)[Len(query)]
<1>1. DnsOK(end) BY TableOK, TablesOK, RecordsAssumption
<1>2. Becomes(IF answered THEN Answered(end) ELSE end) BY DEF Handles
<1> HIDE DEF end
<1>3. CASE ~answered
  <2>1. Becomes(end) BY <1>2, <1>3
  <2> QED BY <1>1, <2>1, BecomesOK DEF Becomes, DnsOK
<1>4. CASE answered
  <2> DEFINE told2 == [n \in Hostnames |-> IF end.said[n] # -1 THEN end.said[n] ELSE end.told[n]]
             last == [end EXCEPT !.told = told2]
  <2>1. Becomes(last) BY <1>2, <1>4 DEF Answered
  <2>2. Serves(end.records, told2) BY <1>1, AnsweredServes DEF DnsOK
  <2> HIDE DEF told2
  <2>3. end \in TableType BY <1>1 DEF DnsOK
  <2>4. /\ last.records = end.records /\ last.use = end.use /\ last.lru = end.lru
        /\ last.uses = end.uses /\ last.told = told2
    BY <2>3 DEF TableType, Tabled
  <2> HIDE DEF last
  <2>5. /\ records' = end.records /\ use' = end.use /\ lru' = end.lru /\ uses' = end.uses
        /\ told' = told2
    BY <2>1, <2>4 DEF Becomes
  <2> QED BY <1>1, <2>2, <2>5, BecomesOK
<1> QED BY <1>3, <1>4

LEMMA LookupOK ==
    ASSUME InOrder, NEW idx \in Indices, Lookup(idx)
    PROVE  InOrder'
<1>1. CASE records[idx] = NoHost
  BY <1>1 DEF Lookup, dnsVars, InOrder
<1>2. CASE records[idx] # NoHost
  <2> DEFINE t == Used(Table, records[idx], idx)
  <2>1. Table.records = records BY DEF Table
  <2>2. DnsOK(t) BY <1>2, <2>1, TableOK, LookedUpOK
  <2>3. Becomes(t) BY <1>2 DEF Lookup
  <2> HIDE DEF t
  <2> QED BY <2>2, <2>3, BecomesOK DEF Becomes, DnsOK
<1> QED BY <1>1, <1>2

LEMMA InOrderStep == InOrder /\ [DnsNext]_dnsVars => InOrder'
<1> SUFFICES ASSUME InOrder, [DnsNext]_dnsVars PROVE InOrder'
  OBVIOUS
<1>1. ASSUME NEW query \in Queries, NEW starved \in SUBSET Hostnames, NEW answered \in BOOLEAN,
             Handles(query, starved, answered)
      PROVE  InOrder'
  BY <1>1, HandlesOK
<1>2. ASSUME NEW idx \in Indices, Lookup(idx) PROVE InOrder'
  BY <1>2, LookupOK
<1>3. CASE UNCHANGED dnsVars
  BY <1>3 DEF dnsVars, InOrder
<1> QED BY <1>1, <1>2, <1>3 DEF DnsNext

(* Every question and every connection leaves the three structures and     *)
(* the promises in order, for tables of any size and queries of any        *)
(* length.                                                                 *)
THEOREM DnsInvariance == DnsSpec => []InOrder
BY InOrderInit, InOrderStep, PTL DEF DnsSpec

LEMMA InOrderMeansInv == InOrder => MappedDnsInv
<1> SUFFICES ASSUME InOrder PROVE MappedDnsInv
  OBVIOUS
<1>1. /\ Table.records = records /\ Table.use = use /\ Table.lru = lru /\ Table.uses = uses
  BY DEF Table
<1>2. Core(records, use, lru, uses) BY DEF InOrder
<1>3. DOMAIN lru = 1 .. use BY <1>2, CoreFacts
<1> HIDE DEF Table
<1>4. Agrees(Table) BY <1>1, <1>2, <1>3 DEF Agrees, Core
<1>5. AddressKeepsName BY DEF InOrder, Serves, AddressKeepsName
<1> QED BY <1>4, <1>5 DEF MappedDnsInv

(* MappedDnsInv: an address that was told leads to the name it was told    *)
(* for until as many other names as there are addresses have been used.    *)
THEOREM MappedDnsTheorem == DnsSpec => []MappedDnsInv
BY DnsInvariance, InOrderMeansInv, PTL

=============================================================================
