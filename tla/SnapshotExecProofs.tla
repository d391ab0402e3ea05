------------------------- MODULE SnapshotExecProofs -------------------------
(***************************************************************************)
(* Proofs about SnapshotExec.  Everything rests on one inductive           *)
(* invariant, SEInv: the types, what the locals of an execution can be at  *)
(* each of its steps, what hydration holds, and that whatever can still be *)
(* written to a cell or to a copy is as new as the key's fence.            *)
(***************************************************************************)
EXTENDS SnapshotExec, TLAPS

\* The types of what SingleFlight keeps.
SFTypeOK ==
    /\ keyOf \in [Calls -> Keys]
    /\ stage \in [Calls -> {"idle", "leading", "joined", "returned"}]
    /\ flight \in [Keys -> Calls \cup {None}]
    /\ leader \in [Calls -> Calls \cup {None}]
    /\ outcome \in [Calls -> Outcomes \cup {None}]
    /\ answer \in [Calls -> Outcomes \cup {None}]

\* An execution has nothing to write before it missed the cache; it reads the
\* source only while it leads an unsettled flight; it saves what it returned, if
\* that is a success; and what it read is as new as its miss.
ExecInv ==
    \A c \in Calls :
        /\ step[c] = "start" => persisted[c] = None
        /\ step[c] \in {"start", "load"} => stage[c] = "idle" /\ out[c] = Zero
        /\ stage[c] = "idle" => leader[c] = None
        /\ stage[c] = "leading" => step[c] = "run"
        /\ stage[c] = "joined" => leader[c] \in Calls
        /\ reading[c] # 0 => Fetching(c) /\ began[c] =< reading[c]
        /\ step[c] = "save" => ~out[c].err /\ result[c] = out[c]
        /\ out[c].data = 0 \/ began[c] =< out[c].data
        /\ began[c] =< version[keyOf[c]]

\* A snapshot that is not older than version n, and one that does not pass for
\* a list of version n when it is older.
NotBefore(s, n) == s # None => s.data = 0 \/ s.data >= n
Current(s, n) == NotBefore(s, n) \/ s.class = "stale"

\* Nothing that was read before the fence of key k passes for current, be it
\* stored or about to be, and nothing from before it was buried is left at all;
\* an invalidation under way that nobody overlapped has emptied all that could
\* be written back, but for the copy.
FenceAt(k) ==
    /\ fence[k] =< version[k]
    /\ candidate[k] =< version[k]
    /\ buried[k] =< version[k]
    /\ Current(store[k], fence[k]) /\ NotBefore(store[k], buried[k])
    /\ NotBefore(copy[k], buried[k])
    /\ NotBefore(payload[k], buried[k])
    /\ \A c \in Active(k) :
          /\ NotBefore(persisted[c], buried[k])
          /\ NotBefore(out[c], fence[k]) /\ NotBefore(out[c], buried[k])
          /\ reading[c] = 0 \/ (reading[c] >= fence[k] /\ reading[c] >= buried[k])
    /\ action[k] = "cleared" /\ candidate[k] # 0 => store[k] = None /\ Quiet(k)
    /\ hydrating = k => Observed(payload[k])

FenceInv == \A k \in Keys : FenceAt(k)

SEInv == SETypeOK /\ SFTypeOK /\ ExecInv /\ NoSilentStaleness /\ FenceInv

-----------------------------------------------------------------------------
(* Snapshots *)

LEMMA HotFacts ==
    ASSUME NEW v \in Versions
    PROVE  Hot(v) \in Listings /\ Hot(v).data = v /\ ~Hot(v).err
BY DEF Hot, Listings

LEMMA ZeroFacts ==
    /\ Zero.data = 0 /\ ~Zero.err
    /\ Failed.data = 0 /\ Failed.err
BY DEF Zero, Failed

\* A snapshot that is observed is a listing, and marking it stale keeps its data.
LEMMA StaleFacts ==
    ASSUME NEW s \in Listings \cup {Zero, None}, Observed(s)
    PROVE  /\ s # None /\ Stale(s) \in Staled
           /\ Stale(s).data = s.data /\ Stale(s).class = "stale"
<1>1. s # None /\ s \in Listings
  BY DEF Observed
<1>2. PICK v \in Versions : s = Hot(v)
  BY <1>1 DEF Listings
<1>3. s \in [class : {"hot"}, data : Versions, err : BOOLEAN]
  BY <1>2 DEF Hot
<1> QED BY <1>1, <1>3 DEF Stale, Staled

LEMMA FallbackFacts ==
    ASSUME NEW s \in Staled
    PROVE  /\ Fallback(s) \in Staled /\ Fallback(s).err
           /\ Fallback(s).data = s.data /\ Fallback(s).class = "stale"
BY DEF Fallback, Staled

\* What is built without an error can be saved.
LEMMA BuiltFacts ==
    ASSUME NEW s \in Built, ~s.err
    PROVE  s \in Listings \cup {Zero}
BY DEF Built, Failed

LEMMA DataFacts ==
    ASSUME MaxVersion \in Nat, NEW s \in Built \cup Staled
    PROVE  s.data \in 0 .. MaxVersion
BY DEF Built, Staled, Listings, Hot, Zero, Failed, Versions

-----------------------------------------------------------------------------
(* Types *)

LEMMA InitTypes == ASSUME SEInit PROVE SETypeOK /\ SFTypeOK
<1> USE SnapshotExecAssumption, SingleFlightAssumption
<1>1. SFTypeOK
  BY DEF SEInit, SFInit, SFTypeOK
<1>2. Hot(1) \in Listings
  BY HotFacts DEF Versions
<1>3. SETypeOK
  BY <1>2 DEF SEInit, SETypeOK, Built, Versions
<1> QED BY <1>1, <1>3

LEMMA FlightTypes ==
    ASSUME SFTypeOK, ExecInv, SENext
    PROVE  SFTypeOK'
<1> USE SnapshotExecAssumption, SingleFlightAssumption DEF SFTypeOK, sfVars
<1>1. CASE UNCHANGED sfVars
  BY <1>1
<1>2. ASSUME NEW c \in Calls, InRun(c) PROVE SFTypeOK'
  <2>1. ASSUME StartFlight(c) PROVE SFTypeOK'
    BY <2>1 DEF StartFlight
  <2>2. ASSUME JoinFlight(c) PROVE SFTypeOK'
    BY <2>2 DEF JoinFlight
  <2>3. ASSUME NEW o \in Outcomes, SettleFlight(c, o) PROVE SFTypeOK'
    BY <2>3 DEF SettleFlight
  <2>4. ASSUME RetireFlight(c) PROVE SFTypeOK'
    BY <2>4 DEF RetireFlight
  <2>5. ASSUME EndFlight(c) PROVE SFTypeOK'
    BY <2>5 DEF EndFlight
  <2>6. ASSUME LeaveFlight(c) PROVE SFTypeOK'
    <3>1. answer' \in [Calls -> Outcomes \cup {None}]
      <4>1. leader[c] \in Calls
        BY <2>6 DEF ExecInv, LeaveFlight
      <4>2. outcome[leader[c]] \in Outcomes \cup {None}
        BY <4>1
      <4> QED BY <2>6, <4>2 DEF LeaveFlight
    <3> QED BY <2>6, <3>1 DEF LeaveFlight
  <2>7. ASSUME SourceRead(c) PROVE SFTypeOK'
    BY <2>7 DEF SourceRead
  <2> QED
    BY <1>2, <2>1, <2>2, <2>3, <2>4, <2>5, <2>6, <2>7, <1>1
       DEF InRun, JoinOrLead, FetchSucceeds, FetchFails, RunCanceled, RunReturns
<1> QED
  BY <1>1, <1>2
     DEF SENext, BeforeRun, Hit, Miss, LoadPersisted, AfterRun, StoreFallback,
         StoreOut, SaveCopy, Mutate, ExecuteAction, ClearCell, Clears, DeleteCopy,
         SourceChanges, TTLExpires, Hydrate, HydrateSkip, HydratePeek,
         HydrateStore, HydrateList, AllDone, seVars

\* What a store may be given.
LEMMA StoreTypes ==
    ASSUME SETypeOK, NEW k \in Keys, NEW s \in Built \cup Staled, Store(k, s)
    PROVE  /\ store' \in [Keys -> Built \cup Staled \cup {None}]
           /\ rev' \in [Keys -> Nat]
           /\ fresh' \subseteq Keys
BY DEF SETypeOK, Store, Set

LEMMA CellTypes ==
    ASSUME SETypeOK, ExecInv, FenceInv, SFTypeOK,
           \/ \E c \in Calls : BeforeRun(c) \/ AfterRun(c)
           \/ \E k \in Keys : Mutate(k) \/ TTLExpires(k) \/ Hydrate(k)
           \/ HydrateList
    PROVE  SETypeOK'
<1> USE SnapshotExecAssumption, SingleFlightAssumption
    DEF cellVars, execVars, actVars, hydVars, Versions
<1>1. ASSUME NEW c \in Calls, BeforeRun(c) \/ AfterRun(c) PROVE SETypeOK'
  <2> keyOf[c] \in Keys
    BY DEF SFTypeOK
  <2>1. ASSUME Hit(c) PROVE SETypeOK'
    BY <2>1 DEF Hit, SETypeOK, Set
  <2>2. ASSUME Miss(c) PROVE SETypeOK'
    <3>1. version[keyOf[c]] \in 0 .. MaxVersion
      BY DEF SETypeOK
    <3> QED BY <2>2, <3>1 DEF Miss, Overlaps, SETypeOK, Set
  <2>3. ASSUME LoadPersisted(c) PROVE SETypeOK'
    <3>1. copy[keyOf[c]] \in Listings \cup {Zero, None}
      BY DEF SETypeOK
    <3>2. persisted' \in [Calls -> Staled \cup {None}]
      BY <2>3, <3>1, StaleFacts DEF LoadPersisted, SETypeOK, Set
    <3> QED BY <2>3, <3>2 DEF LoadPersisted, SETypeOK, Set
  <2>4. ASSUME StoreFallback(c) PROVE SETypeOK'
    <3>1. Fallback(persisted[c]) \in Staled
      BY <2>4, FallbackFacts DEF StoreFallback, HasFallback, SETypeOK
    <3> QED BY <2>4, <3>1, StoreTypes DEF StoreFallback, SETypeOK, Set
  <2>5. ASSUME StoreOut(c) PROVE SETypeOK'
    <3>1. out[c] \in Built
      BY DEF SETypeOK
    <3> QED BY <2>5, <3>1, StoreTypes DEF StoreOut, SETypeOK, Set
  <2>6. ASSUME SaveCopy(c) PROVE SETypeOK'
    <3>1. out[c] \in Listings \cup {Zero}
      BY <2>6, BuiltFacts DEF SaveCopy, SETypeOK, ExecInv
    <3> QED BY <2>6, <3>1 DEF SaveCopy, SETypeOK, Set
  <2> QED BY <1>1, <2>1, <2>2, <2>3, <2>4, <2>5, <2>6 DEF BeforeRun, AfterRun
<1>2. ASSUME NEW k \in Keys, Mutate(k) PROVE SETypeOK'
  <2>1. ASSUME ExecuteAction(k) \/ SourceChanges(k) PROVE SETypeOK'
    BY <2>1 DEF ExecuteAction, SourceChanges, SETypeOK, Set
  <2>2. ASSUME ClearCell(k) PROVE SETypeOK'
    BY <2>2 DEF ClearCell, Clears, SETypeOK, Set
  <2>3. ASSUME DeleteCopy(k) PROVE SETypeOK'
    BY <2>3 DEF DeleteCopy, SETypeOK, Set
  <2> QED BY <1>2, <2>1, <2>2, <2>3 DEF Mutate
<1>3. ASSUME NEW k \in Keys, TTLExpires(k) PROVE SETypeOK'
  BY <1>3 DEF TTLExpires, SETypeOK
<1>4. ASSUME NEW k \in Keys, Hydrate(k) PROVE SETypeOK'
  <2>1. ASSUME HydrateSkip(k) \/ HydratePeek(k) PROVE SETypeOK'
    BY <2>1 DEF HydrateSkip, HydratePeek, SETypeOK, Set
  <2>2. ASSUME HydrateStore(k) PROVE SETypeOK'
    <3>1. Stale(payload[k]) \in Staled
      BY <2>2, StaleFacts DEF HydrateStore, FenceInv, FenceAt, SETypeOK
    <3> QED BY <2>2, <3>1, StoreTypes DEF HydrateStore, SETypeOK, Set
  <2> QED BY <1>4, <2>1, <2>2 DEF Hydrate
<1>5. ASSUME HydrateList PROVE SETypeOK'
  BY <1>5 DEF HydrateList, Overlaps, SETypeOK
<1> QED BY <1>1, <1>2, <1>3, <1>4, <1>5

LEMMA RunTypes ==
    ASSUME SETypeOK, ExecInv, SFTypeOK, NEW c \in Calls, InRun(c)
    PROVE  SETypeOK'
<1> USE SnapshotExecAssumption
    DEF cellVars, execVars, actVars, hydVars, Versions
<1> keyOf[c] \in Keys
  BY DEF SFTypeOK
<1>1. ASSUME JoinOrLead(c) \/ RunCanceled(c) \/ RunReturns(c) PROVE SETypeOK'
  BY <1>1 DEF JoinOrLead, RunCanceled, RunReturns, SETypeOK
<1>2. ASSUME SourceRead(c) PROVE SETypeOK'
  <2>1. version[keyOf[c]] \in 0 .. MaxVersion
    BY DEF SETypeOK
  <2> QED BY <1>2, <2>1 DEF SourceRead, SETypeOK, Set
<1>3. ASSUME FetchSucceeds(c) PROVE SETypeOK'
  <2>1. reading[c] \in Versions
    BY <1>3 DEF FetchSucceeds, SETypeOK
  <2>2. Hot(reading[c]) \in Built
    BY <2>1, HotFacts DEF Built
  <2> QED BY <1>3, <2>2 DEF FetchSucceeds, SETypeOK, Set
<1>4. ASSUME FetchFails(c) PROVE SETypeOK'
  <2>1. Failed \in Built
    BY DEF Built
  <2> QED BY <1>4, <2>1 DEF FetchFails, SETypeOK, Set
<1> QED BY <1>1, <1>2, <1>3, <1>4 DEF InRun

LEMMA NextTypes ==
    ASSUME SETypeOK, SFTypeOK, ExecInv, FenceInv, SENext
    PROVE  SETypeOK' /\ SFTypeOK'
<1>1. ASSUME AllDone PROVE SETypeOK'
  BY <1>1 DEF AllDone, seVars, cellVars, execVars, actVars, hydVars, SETypeOK
<1>2. SETypeOK'
  BY <1>1, CellTypes, RunTypes DEF SENext
<1> QED BY <1>2, FlightTypes

-----------------------------------------------------------------------------
(* The locals of executions. *)

LEMMA InitExec == ASSUME SEInit, SETypeOK, SFTypeOK PROVE ExecInv /\ NoSilentStaleness
BY ZeroFacts, SingleFlightAssumption
   DEF SEInit, SFInit, SETypeOK, SFTypeOK, ExecInv, NoSilentStaleness, Versions

\* Steps of other actors do not take versions back.
LEMMA MutateExec ==
    ASSUME SETypeOK, SFTypeOK, ExecInv, NoSilentStaleness,
           UNCHANGED <<sfVars, execVars>>,
           \A k \in Keys : version[k] =< version'[k] /\ version'[k] \in Versions
    PROVE  ExecInv' /\ NoSilentStaleness'
<1> USE SnapshotExecAssumption
<1>1. \A c \in Calls : began[c] =< version'[keyOf[c]]
  <2> SUFFICES ASSUME NEW c \in Calls PROVE began[c] =< version'[keyOf[c]]
    OBVIOUS
  <2>1. keyOf[c] \in Keys /\ began[c] \in Int
    BY DEF SFTypeOK, SETypeOK
  <2>2. version[keyOf[c]] \in Int /\ version'[keyOf[c]] \in Int
    BY <2>1 DEF SETypeOK, Versions
  <2> QED BY <2>1, <2>2 DEF ExecInv
<1> QED BY <1>1 DEF ExecInv, NoSilentStaleness, Fetching, sfVars, execVars

LEMMA NextExec ==
    ASSUME SETypeOK, SFTypeOK, ExecInv, NoSilentStaleness, SENext
    PROVE  ExecInv' /\ NoSilentStaleness'
<1> USE SnapshotExecAssumption, SingleFlightAssumption
<1>1. ASSUME NEW c \in Calls, BeforeRun(c) PROVE ExecInv' /\ NoSilentStaleness'
  <2> keyOf[c] \in Keys /\ version[keyOf[c]] \in 1 .. MaxVersion
    BY DEF SFTypeOK, SETypeOK, Versions
  <2> USE DEF sfVars, actVars, Set
  <2>1. ASSUME Hit(c) PROVE ExecInv' /\ NoSilentStaleness'
    BY <2>1 DEF Hit, SETypeOK, ExecInv, NoSilentStaleness, Fetching
  <2>2. ASSUME Miss(c) PROVE ExecInv' /\ NoSilentStaleness'
    BY <2>2, ZeroFacts DEF Miss, SETypeOK, ExecInv, NoSilentStaleness, Fetching
  <2>3. ASSUME LoadPersisted(c) PROVE ExecInv' /\ NoSilentStaleness'
    BY <2>3 DEF LoadPersisted, SETypeOK, ExecInv, NoSilentStaleness, Fetching
  <2> QED BY <1>1, <2>1, <2>2, <2>3 DEF BeforeRun
<1>2. ASSUME NEW c \in Calls, InRun(c) PROVE ExecInv' /\ NoSilentStaleness'
  <2> keyOf[c] \in Keys /\ version[keyOf[c]] \in 1 .. MaxVersion
    BY DEF SFTypeOK, SETypeOK, Versions
  <2> USE DEF SETypeOK, SFTypeOK, ExecInv, NoSilentStaleness, Fetching, execVars, actVars
  <2>1. ASSUME JoinOrLead(c) PROVE ExecInv' /\ NoSilentStaleness'
    <3>1. CASE StartFlight(c)
      BY <2>1, <3>1 DEF JoinOrLead, StartFlight
    <3>2. CASE JoinFlight(c)
      BY <2>1, <3>2 DEF JoinOrLead, JoinFlight
    <3> QED BY <2>1, <3>1, <3>2 DEF JoinOrLead
  <2>2. ASSUME SourceRead(c) PROVE ExecInv' /\ NoSilentStaleness'
    BY <2>2 DEF SourceRead, sfVars, Set
  <2>3. ASSUME FetchSucceeds(c) PROVE ExecInv' /\ NoSilentStaleness'
    <3>1. reading[c] \in Versions
      BY <2>3 DEF FetchSucceeds, Versions
    <3>2. Hot(reading[c]).data = reading[c] /\ ~Hot(reading[c]).err
      BY <3>1, HotFacts
    <3> QED BY <2>3, <3>2 DEF FetchSucceeds, SettleFlight, Set
  <2>4. ASSUME FetchFails(c) PROVE ExecInv' /\ NoSilentStaleness'
    <3>1. CASE UNCHANGED sfVars
      BY <2>4, <3>1, ZeroFacts DEF FetchFails, sfVars, Set
    <3>2. ASSUME NEW o \in {"failed", "canceled"}, SettleFlight(c, o)
          PROVE  ExecInv' /\ NoSilentStaleness'
      BY <2>4, <3>2, ZeroFacts DEF FetchFails, SettleFlight, Set
    <3> QED BY <2>4, <3>1, <3>2 DEF FetchFails
  <2>5. ASSUME RunCanceled(c) PROVE ExecInv' /\ NoSilentStaleness'
    BY <2>5 DEF RunCanceled, SettleFlight
  <2>6. ASSUME RunReturns(c) PROVE ExecInv' /\ NoSilentStaleness'
    <3>1. CASE RetireFlight(c)
      BY <2>6, <3>1 DEF RunReturns, RetireFlight
    <3>2. CASE EndFlight(c)
      BY <2>6, <3>2 DEF RunReturns, EndFlight
    <3>3. CASE LeaveFlight(c)
      BY <2>6, <3>3 DEF RunReturns, LeaveFlight
    <3> QED BY <2>6, <3>1, <3>2, <3>3 DEF RunReturns
  <2> QED BY <1>2, <2>1, <2>2, <2>3, <2>4, <2>5, <2>6 DEF InRun
<1>3. ASSUME NEW c \in Calls, AfterRun(c) PROVE ExecInv' /\ NoSilentStaleness'
  <2> USE DEF SETypeOK, ExecInv, NoSilentStaleness, Fetching, sfVars, actVars, Set
  <2>1. ASSUME StoreFallback(c) PROVE ExecInv' /\ NoSilentStaleness'
    <3>1. Fallback(persisted[c]).err
      BY <2>1, FallbackFacts DEF StoreFallback, HasFallback
    <3> QED BY <2>1, <3>1 DEF StoreFallback
  <2>2. ASSUME StoreOut(c) PROVE ExecInv' /\ NoSilentStaleness'
    BY <2>2 DEF StoreOut, Saves
  <2>3. ASSUME SaveCopy(c) PROVE ExecInv' /\ NoSilentStaleness'
    BY <2>3 DEF SaveCopy
  <2> QED BY <1>3, <2>1, <2>2, <2>3 DEF AfterRun
<1>4. ASSUME NEW k \in Keys, Mutate(k) PROVE ExecInv' /\ NoSilentStaleness'
  BY <1>4, MutateExec
     DEF Mutate, ExecuteAction, ClearCell, Clears, DeleteCopy, SourceChanges, SETypeOK,
         Versions, Set
<1>5. ASSUME UNCHANGED <<sfVars, execVars, version>>
      PROVE  ExecInv' /\ NoSilentStaleness'
  BY <1>5, MutateExec DEF SETypeOK, Versions
<1> QED
  BY <1>1, <1>2, <1>3, <1>4, <1>5
     DEF SENext, TTLExpires, Hydrate, HydrateSkip, HydratePeek, HydrateStore,
         HydrateList, AllDone, seVars, actVars

-----------------------------------------------------------------------------
(* The fence. *)

LEMMA InitFence == ASSUME SEInit PROVE FenceInv
<1> USE SnapshotExecAssumption
<1>1. Hot(1).data = 1
  BY HotFacts DEF Versions
<1>2. \A k \in Keys : Active(k) = {}
  BY DEF SEInit, Active
<1> QED BY <1>1, <1>2 DEF SEInit, FenceInv, FenceAt, NotBefore, Current

LEMMA BeforeRunFence ==
    ASSUME SETypeOK, SFTypeOK, ExecInv, FenceInv,
           NEW c \in Calls, BeforeRun(c), NEW k \in Keys
    PROVE  FenceAt(k)'
<1> keyOf[c] \in Keys /\ FenceAt(k) /\ FenceAt(keyOf[c])
  BY DEF SFTypeOK, FenceInv
<1> USE DEF sfVars, cellVars, actVars, hydVars, Set, FenceAt, Active, Quiet, NotBefore, Current
<1>1. ASSUME Hit(c) PROVE FenceAt(k)'
  BY <1>1 DEF Hit, SETypeOK
<1>2. ASSUME Miss(c) PROVE FenceAt(k)'
  BY <1>2, ZeroFacts, SnapshotExecAssumption
     DEF Miss, Overlaps, SETypeOK, ExecInv, Fetching, Versions
<1>3. ASSUME LoadPersisted(c) PROVE FenceAt(k)'
  <2>1. Observed(copy[keyOf[c]]) => Stale(copy[keyOf[c]]).data = copy[keyOf[c]].data
                                    /\ copy[keyOf[c]] # None
    BY StaleFacts DEF SETypeOK
  <2> QED BY <1>3, <2>1 DEF LoadPersisted, SETypeOK
<1> QED BY <1>1, <1>2, <1>3 DEF BeforeRun

LEMMA InRunFence ==
    ASSUME SETypeOK, SFTypeOK, ExecInv, FenceInv,
           NEW c \in Calls, InRun(c), NEW k \in Keys
    PROVE  FenceAt(k)'
<1> keyOf[c] \in Keys /\ FenceAt(k) /\ FenceAt(keyOf[c])
  BY DEF SFTypeOK, FenceInv
<1>k. keyOf' = keyOf
  BY DEF InRun, JoinOrLead, SourceRead, FetchSucceeds, FetchFails, RunCanceled,
         RunReturns, StartFlight, JoinFlight, SettleFlight, RetireFlight,
         EndFlight, LeaveFlight, sfVars
<1> USE <1>k
    DEF cellVars, execVars, actVars, hydVars, Set, FenceAt, Active, Quiet, NotBefore, Current
<1>1. ASSUME JoinOrLead(c) \/ RunCanceled(c) \/ RunReturns(c) PROVE FenceAt(k)'
  BY <1>1 DEF JoinOrLead, RunCanceled, RunReturns
<1>2. ASSUME SourceRead(c) PROVE FenceAt(k)'
  BY <1>2 DEF SourceRead, SETypeOK
<1>3. ASSUME FetchSucceeds(c) PROVE FenceAt(k)'
  <2>1. Hot(reading[c]).data = reading[c]
    BY <1>3, HotFacts DEF FetchSucceeds, SETypeOK, Versions
  <2> QED BY <1>3, <2>1 DEF FetchSucceeds, SETypeOK
<1>4. ASSUME FetchFails(c) PROVE FenceAt(k)'
  BY <1>4, ZeroFacts DEF FetchFails, SETypeOK
<1> QED BY <1>1, <1>2, <1>3, <1>4 DEF InRun

LEMMA AfterRunFence ==
    ASSUME SETypeOK, SFTypeOK, ExecInv, FenceInv,
           NEW c \in Calls, AfterRun(c), NEW k \in Keys
    PROVE  FenceAt(k)'
<1> keyOf[c] \in Keys /\ FenceAt(k) /\ FenceAt(keyOf[c])
  BY DEF SFTypeOK, FenceInv
<1> USE DEF sfVars, actVars, hydVars, Set, FenceAt, Active, Quiet, NotBefore, Current
<1>1. ASSUME StoreFallback(c) PROVE FenceAt(k)'
  <2>1. persisted[c] # None /\ Fallback(persisted[c]).data = persisted[c].data
       /\ Fallback(persisted[c]).class = "stale"
    BY <1>1, FallbackFacts DEF StoreFallback, HasFallback, SETypeOK
  <2> QED BY <1>1, <2>1 DEF StoreFallback, Store, SETypeOK
<1>2. ASSUME StoreOut(c) PROVE FenceAt(k)'
  BY <1>2 DEF StoreOut, Store, SETypeOK
<1>3. ASSUME SaveCopy(c) PROVE FenceAt(k)'
  BY <1>3 DEF SaveCopy, cellVars, SETypeOK
<1> QED BY <1>1, <1>2, <1>3 DEF AfterRun

LEMMA MutateFence ==
    ASSUME SETypeOK, SFTypeOK, ExecInv, FenceInv,
           NEW j \in Keys, Mutate(j), NEW k \in Keys
    PROVE  FenceAt(k)'
<1> FenceAt(k) /\ FenceAt(j)
  BY DEF FenceInv
<1> USE SnapshotExecAssumption
    DEF sfVars, execVars, hydVars, Set, FenceAt, Active, Quiet, NotBefore, Current, SETypeOK,
        Versions
<1>1. ASSUME ExecuteAction(j) \/ SourceChanges(j) PROVE FenceAt(k)'
  BY <1>1 DEF ExecuteAction, SourceChanges, cellVars
<1>2. ASSUME ClearCell(j) PROVE FenceAt(k)'
  BY <1>2 DEF ClearCell, Clears, Unread
<1>3. ASSUME DeleteCopy(j) PROVE FenceAt(k)'
  BY <1>3 DEF DeleteCopy, cellVars
<1> QED BY <1>1, <1>2, <1>3 DEF Mutate

LEMMA HydrateFence ==
    ASSUME SETypeOK, SFTypeOK, ExecInv, FenceInv,
           NEW j \in Keys, Hydrate(j), NEW k \in Keys
    PROVE  FenceAt(k)'
<1> FenceAt(k) /\ FenceAt(j)
  BY DEF FenceInv
<1> USE SnapshotExecAssumption
    DEF sfVars, execVars, actVars, Set, FenceAt, Active, Quiet, NotBefore, Current, SETypeOK
<1>1. ASSUME HydrateSkip(j) PROVE FenceAt(k)'
  BY <1>1 DEF HydrateSkip, cellVars
<1>2. ASSUME HydratePeek(j) PROVE FenceAt(k)'
  BY <1>2 DEF HydratePeek, cellVars
<1>3. ASSUME HydrateStore(j) PROVE FenceAt(k)'
  <2>1. /\ Stale(payload[j]).data = payload[j].data /\ payload[j] # None
        /\ Stale(payload[j]).class = "stale"
    BY <1>3, StaleFacts DEF HydrateStore
  <2> QED BY <1>3, <2>1 DEF HydrateStore, Store
<1> QED BY <1>1, <1>2, <1>3 DEF Hydrate

LEMMA OtherFence ==
    ASSUME SETypeOK, FenceInv, NEW k \in Keys,
           HydrateList \/ AllDone \/ \E j \in Keys : TTLExpires(j)
    PROVE  FenceAt(k)'
<1> FenceAt(k)
  BY DEF FenceInv
<1> USE SnapshotExecAssumption
    DEF sfVars, execVars, actVars, FenceAt, Active, Quiet, NotBefore, Current, SETypeOK
<1>1. ASSUME HydrateList PROVE FenceAt(k)'
  BY <1>1 DEF HydrateList, Overlaps, Observed, cellVars, Versions
<1>2. ASSUME AllDone PROVE FenceAt(k)'
  BY <1>2 DEF AllDone, seVars, cellVars, hydVars
<1>3. ASSUME NEW j \in Keys, TTLExpires(j) PROVE FenceAt(k)'
  BY <1>3 DEF TTLExpires, hydVars
<1> QED BY <1>1, <1>2, <1>3

LEMMA NextFence ==
    ASSUME SETypeOK, SFTypeOK, ExecInv, FenceInv, SENext
    PROVE  FenceInv'
BY BeforeRunFence, InRunFence, AfterRunFence, MutateFence, HydrateFence, OtherFence
   DEF FenceInv, SENext

-----------------------------------------------------------------------------
(* Theorems *)

LEMMA StutterInv == ASSUME SEInv, UNCHANGED seVars PROVE SEInv'
BY DEF SEInv, SETypeOK, SFTypeOK, ExecInv, NoSilentStaleness, FenceInv, FenceAt,
       NotBefore, Current, Active, Quiet, Observed, Fetching, seVars, sfVars, cellVars,
       execVars, actVars, hydVars

\* The inductive invariant: executeClusterSnapshot, the mutations and hydration
\* keep what the locals, the cells and the persisted copies can be.
THEOREM SnapshotInvariant == SESpec => []SEInv
<1>1. SEInit => SEInv
  BY InitTypes, InitExec, InitFence DEF SEInv
<1>2. SEInv /\ [SENext]_seVars => SEInv'
  BY NextTypes, NextExec, NextFence, StutterInv DEF SEInv
<1> QED BY <1>1, <1>2, PTL DEF SESpec

\* Every cell, copy, local and result of snapshot_exec.go is of its type; what
\* is persisted was a success.
THEOREM SnapshotTypes == SESpec => []SETypeOK
<1>1. SEInv => SETypeOK
  BY DEF SEInv
<1> QED BY <1>1, SnapshotInvariant, PTL

\* After an invalidation (clearNamespacedSnapshot, then Delete, which may fail
\* unnoticed) an older list does not pass for current again, and one whose
\* delete succeeded while nobody read the list is nowhere, in memory or on disk.
THEOREM InvalidationStays == SESpec => []InvalidationHolds
<1>1. ASSUME SEInv, NEW k \in Keys
      PROVE  /\ \A s \in InMemory(k) : Current(s, fence[k])
             /\ \A s \in InMemory(k) \cup OnDisk(k) : NotBefore(s, buried[k])
  <2>1. FenceAt(k)
    BY <1>1 DEF SEInv, FenceInv
  <2>2. \A c \in Active(k) : persisted[c] # None => persisted[c].class = "stale"
    BY <1>1 DEF SEInv, SETypeOK, Staled, Active
  <2>3. ASSUME NEW c \in Active(k)
        PROVE  /\ Current(persisted[c], fence[k]) /\ NotBefore(persisted[c], buried[k])
               /\ Current(out[c], fence[k]) /\ NotBefore(out[c], buried[k])
    BY <2>1, <2>2, <2>3 DEF FenceAt, Current, NotBefore
  <2> QED BY <2>1, <2>3 DEF FenceAt, InMemory, OnDisk
<1>2. ASSUME SEInv, NEW k \in Keys, NEW s \in InMemory(k) \cup OnDisk(k), s # None
      PROVE  s.data \in Int
  <2>1. s \in Built \cup Staled \cup Listings \cup {Zero}
    BY <1>2 DEF SEInv, SETypeOK, InMemory, OnDisk, Active
  <2> QED BY <2>1, DataFacts, SnapshotExecAssumption DEF Built
<1>3. ASSUME SEInv, NEW k \in Keys PROVE fence[k] \in Int /\ buried[k] \in Int
  BY <1>3 DEF SEInv, SETypeOK
<1>4. SEInv => InvalidationHolds
  BY <1>1, <1>2, <1>3 DEF InvalidationHolds, Older, Current, NotBefore
<1> QED BY <1>4, SnapshotInvariant, PTL

\* An execution of snapshot_exec.go that returns no error returns items read
\* after it missed the cache, whatever it joined or fell back to.
THEOREM StalenessIsReported == SESpec => []NoSilentStaleness
<1>1. SEInv => NoSilentStaleness
  BY DEF SEInv
<1> QED BY <1>1, SnapshotInvariant, PTL

\* Each write of a cell of snapshot_store.go raises its revision.
THEOREM WritesRaiseRevisions == SESpec => RevisionCountsWrites
<1> DEFINE Raises == \A k \in Keys : store'[k] # store[k] => rev'[k] > rev[k]
<1>1. ASSUME SETypeOK, SFTypeOK, [SENext]_seVars PROVE Raises
  <2>1. ASSUME NEW j \in Keys, NEW s, Set(store, j, s), Set(rev, j, rev[j] + 1)
        PROVE  Raises
    <3> SUFFICES ASSUME NEW k \in Keys, store'[k] # store[k] PROVE rev'[k] > rev[k]
      OBVIOUS
    <3>1. k = j
      BY <1>1, <2>1 DEF Set, SETypeOK
    <3>2. rev'[j] = rev[j] + 1 /\ rev[j] \in Nat
      BY <1>1, <2>1 DEF Set, SETypeOK
    <3> QED BY <3>1, <3>2
  <2>2. ASSUME NEW j \in Keys, ClearCell(j) PROVE Raises
    BY <2>1, <2>2 DEF ClearCell, Clears, Unread
  <2>3. CASE UNCHANGED store
    BY <2>3
  <2>4. \A c \in Calls : keyOf[c] \in Keys
    BY <1>1 DEF SFTypeOK
  <2> HIDE DEF Raises
  <2>5. ASSUME NEW c \in Calls, BeforeRun(c) \/ InRun(c) PROVE UNCHANGED store
    BY <2>5 DEF BeforeRun, Hit, Miss, LoadPersisted, InRun, JoinOrLead, SourceRead,
                FetchSucceeds, FetchFails, RunCanceled, RunReturns, cellVars
  <2>6. ASSUME NEW c \in Calls, AfterRun(c) PROVE Raises
    BY <2>6, <2>1, <2>3, <2>4
       DEF AfterRun, StoreFallback, StoreOut, SaveCopy, Store, cellVars
  <2>7. ASSUME NEW k \in Keys, Mutate(k) \/ TTLExpires(k) \/ Hydrate(k) PROVE Raises
    BY <2>7, <2>1, <2>2, <2>3
       DEF Mutate, ExecuteAction, DeleteCopy, SourceChanges, TTLExpires, Hydrate,
           HydrateSkip, HydratePeek, HydrateStore, Store, cellVars
  <2>8. ASSUME HydrateList \/ AllDone \/ UNCHANGED seVars PROVE UNCHANGED store
    BY <2>8 DEF HydrateList, AllDone, seVars, cellVars
  <2> QED BY <1>1, <2>3, <2>5, <2>6, <2>7, <2>8 DEF SENext
<1>2. SEInv => SETypeOK /\ SFTypeOK
  BY DEF SEInv
<1>3. SEInv /\ [SENext]_seVars => [Raises]_seVars
  BY <1>1, <1>2
<1> HIDE DEF Raises
<1>4. [][Raises]_seVars => RevisionCountsWrites
  BY DEF RevisionCountsWrites, Raises
<1> QED BY <1>3, <1>4, SnapshotInvariant, PTL DEF SESpec

\* Executions use Run as it is meant to be used: what they do in it is a
\* behaviour of SingleFlight, which Scheduler implements, and mutations,
\* hydration and the stores take no part in it.
THEOREM RunsAreFlights == SESpec => SFSpec
<1>1. SEInit => SFInit
  BY DEF SEInit
<1>2. [SENext]_seVars => [SFNext]_sfVars
  <2> SUFFICES ASSUME [SENext]_seVars PROVE [SFNext]_sfVars
    OBVIOUS
  <2>1. ASSUME NEW c \in Calls, JoinOrLead(c) \/ RunReturns(c) PROVE SFNext
    BY <2>1 DEF JoinOrLead, RunReturns, SFNext
  <2>2. ASSUME NEW c \in Calls, FetchSucceeds(c) \/ FetchFails(c) \/ RunCanceled(c)
        PROVE  [SFNext]_sfVars
    <3>1. UNCHANGED sfVars \/ \E o \in Outcomes : SettleFlight(c, o)
      BY <2>2, SnapshotExecAssumption DEF FetchSucceeds, FetchFails, RunCanceled
    <3> QED
      BY <3>1 DEF SFNext
  <2>3. ASSUME NEW c \in Calls, BeforeRun(c) \/ SourceRead(c) \/ AfterRun(c)
        PROVE  UNCHANGED sfVars
    BY <2>3 DEF BeforeRun, Hit, Miss, LoadPersisted, SourceRead, AfterRun, StoreFallback,
                StoreOut, SaveCopy
  <2>4. ASSUME NEW k \in Keys, Mutate(k) \/ TTLExpires(k) \/ Hydrate(k)
        PROVE  UNCHANGED sfVars
    BY <2>4 DEF Mutate, ExecuteAction, ClearCell, Clears, DeleteCopy, SourceChanges,
                TTLExpires,
                Hydrate, HydrateSkip, HydratePeek, HydrateStore
  <2>5. ASSUME HydrateList \/ AllDone \/ UNCHANGED seVars PROVE UNCHANGED sfVars
    BY <2>5 DEF HydrateList, AllDone, seVars
  <2> QED
    BY <2>1, <2>2, <2>3, <2>4, <2>5 DEF SENext, InRun
<1> QED
  BY <1>1, <1>2, PTL DEF SESpec, SFSpec

=============================================================================
