-------------------------- MODULE ListQueryProofs --------------------------
(***************************************************************************)
(* Theorems about ListQuery, for every set of calls, contexts and          *)
(* namespaces and every value of the bounds.                               *)
(*                                                                         *)
(* That the rows are those of the current key is not inductive: it says    *)
(* nothing of the calls under way, which will write rows when answered.    *)
(* The invariant says what they carry: a call of the present generation    *)
(* the key of the fetchers, and none a generation yet to come.             *)
(***************************************************************************)
EXTENDS ListQuery, TLAPS

\* What a call carries.
Carries(w) ==
  /\ w.gen <= gen
  /\ w.gen = gen => w.key = fetchKey
  /\ w.step = "poll" => w.op # "load"

QueryInv ==
  /\ LQTypeOK
  /\ pending => gen <= MaxSwitches
  /\ \A c \in Calls : calls[c] # Idle => Carries(calls[c])
  /\ rows # None => rows.key = fetchKey
  /\ ~pending => fetchKey = key
  /\ LoadingHasLoad

LEMMA WaitingIsNotIdle ==
  ASSUME NEW w \in Waiting
  PROVE  w # Idle
<1>1. "gen" \in DOMAIN w
  BY DEF Waiting
<1>2. "gen" \notin DOMAIN Idle
  BY DEF Idle
<1> QED
  BY <1>1, <1>2

LEMMA ServedVersion ==
  ASSUME LQTypeOK, NEW k \in Keys
  PROVE  Served(k) \in 0..MaxVersion
BY DEF LQTypeOK, Served, Backing, Keys

LEMMA PageKeysAreKeys == PageKeys \subseteq Keys
BY DEF PageKeys

\* A call that starts is a waiting one, of this generation and key.
LEMMA StartedWaits ==
  ASSUME LQTypeOK, NEW op \in Ops, NEW step \in {"rows", "mark", "poll"}
  PROVE  /\ Started(op, step) \in Waiting
         /\ Started(op, step).op = op /\ Started(op, step).step = step
         /\ Started(op, step).gen = gen /\ Started(op, step).key = fetchKey
<1>1. fetchKey \in Keys /\ gen \in 0..(MaxSwitches + 1)
  BY PageKeysAreKeys DEF LQTypeOK
<1>2. Served(fetchKey) \in 0..MaxVersion
  BY <1>1, ServedVersion
<1> QED
  BY <1>1, <1>2 DEF Started, Waiting

\* The versions of an answer are versions.
LEMMA AnswerIsVersion ==
  ASSUME LQTypeOK, NEW c \in Calls, calls[c] # Idle, NEW v \in Answers(c)
  PROVE  v \in 0..MaxVersion
<1>1. calls[c] \in Waiting
  BY DEF LQTypeOK
<1>2. calls[c].key \in Keys /\ calls[c].from \in 0..MaxVersion
  BY <1>1 DEF Waiting
<1>3. Served(calls[c].key) \in 0..MaxVersion
  BY <1>2, ServedVersion
<1> QED
  BY <1>2, <1>3, BoundsAssumption DEF Answers

\* The steps that replace a call by one of this generation, or end it, and
\* leave the key of the fetchers.
LEMMA CallReplaced ==
  ASSUME QueryInv, NEW c \in Calls, NEW w \in Waiting \union {Idle},
         w # Idle => /\ w.gen = gen /\ w.key = fetchKey
                     /\ w.step = "poll" => w.op # "load",
         calls' = [calls EXCEPT ![c] = w],
         UNCHANGED <<gen, fetchKey>>
  PROVE  /\ calls' \in [Calls -> {Idle} \union Waiting]
         /\ \A d \in Calls : (calls[d] # Idle => Carries(calls[d]))'
<1>1. calls \in [Calls -> {Idle} \union Waiting]
  BY DEF QueryInv, LQTypeOK
<1>2. calls' \in [Calls -> {Idle} \union Waiting]
  BY <1>1
<1>3. gen \in Nat
  BY BoundsAssumption DEF QueryInv, LQTypeOK
<1>4. ASSUME NEW d \in Calls, calls'[d] # Idle
      PROVE  Carries(calls[d])'
  <2>1. CASE d = c
    BY <1>1, <1>3, <1>4, <2>1 DEF Carries
  <2>2. CASE d # c
    BY <1>1, <1>4, <2>2 DEF Carries, QueryInv
  <2> QED
    BY <2>1, <2>2
<1> QED
  BY <1>2, <1>4

\* The load the spinner is shown for stays one, or the spinner goes.
LEMMA LoadKept ==
  ASSUME QueryInv, NEW c \in Calls, NEW w,
         calls[c] # Idle /\ calls[c].op = "load" /\ Current(c)
           => w # Idle /\ w.op = "load" /\ w.gen = gen,
         calls' = [calls EXCEPT ![c] = w],
         UNCHANGED <<gen, loading>>
  PROVE  LoadingHasLoad'
<1>1. calls \in [Calls -> {Idle} \union Waiting]
  BY DEF QueryInv, LQTypeOK
<1> SUFFICES ASSUME loading
             PROVE  \E d \in Calls : /\ calls'[d] # Idle
                                     /\ calls'[d].op = "load"
                                     /\ calls'[d].gen = gen
  BY DEF LoadingHasLoad, Current
<1> PICK d \in Calls : calls[d] # Idle /\ calls[d].op = "load" /\ Current(d)
  BY DEF QueryInv, LoadingHasLoad
<1>2. CASE d = c
  BY <1>1, <1>2
<1>3. CASE d # c
  BY <1>1, <1>3 DEF Current
<1> QED
  BY <1>2, <1>3

-----------------------------------------------------------------------------
(* Every step keeps the invariant.                                         *)

LEMMA EnvironmentKeeps ==
  ASSUME QueryInv, Environment
  PROVE  QueryInv'
<1> USE BoundsAssumption
<1>1. CASE ChangeKey
  BY <1>1
     DEF ChangeKey, QueryInv, LQTypeOK, PageKeys, KeyNamespaces, Carries,
         LoadingHasLoad, Current, envVars
<1>2. CASE SetRefresh
  BY <1>2
     DEF SetRefresh, QueryInv, LQTypeOK, PageKeys, KeyNamespaces, Carries,
         LoadingHasLoad, Current, envVars, queryVars
<1>3. CASE SourceChanges
  BY <1>3
     DEF SourceChanges, QueryInv, LQTypeOK, PageKeys, KeyNamespaces, Carries,
         LoadingHasLoad, Current, pageVars, queryVars
<1>4. CASE HealthChanges
  BY <1>4
     DEF HealthChanges, QueryInv, LQTypeOK, PageKeys, KeyNamespaces, Carries,
         LoadingHasLoad, Current, pageVars, queryVars
<1> QED
  BY <1>1, <1>2, <1>3, <1>4 DEF Environment

LEMMA RunEffectsKeeps ==
  ASSUME QueryInv, NEW c \in Calls, RunEffects(c)
  PROVE  QueryInv'
<1> DEFINE w == [op |-> "load", step |-> "rows", gen |-> gen',
                 key |-> fetchKey', from |-> Served(fetchKey')]
<1>1. gen \in Nat /\ gen' = gen + 1 /\ gen' \in 0..(MaxSwitches + 1)
  BY BoundsAssumption DEF RunEffects, QueryInv, LQTypeOK
<1>2. fetchKey' \in Keys /\ fetchKey' = key /\ key' = key
  BY PageKeysAreKeys DEF RunEffects, QueryInv, LQTypeOK, pageVars
<1>3. w \in Waiting
  <2>1. Served(fetchKey') \in 0..MaxVersion
    BY <1>2, ServedVersion DEF QueryInv
  <2> QED
    BY <1>1, <1>2, <2>1 DEF Waiting, Ops
<1>4. w.op = "load" /\ w.step = "rows" /\ w.gen = gen' /\ w.key = fetchKey'
  OBVIOUS
<1>5. calls' = [calls EXCEPT ![c] = w]
  BY DEF RunEffects
<1> HIDE DEF w
<1>6. calls \in [Calls -> {Idle} \union Waiting]
  BY DEF QueryInv, LQTypeOK
<1>7. calls' \in [Calls -> {Idle} \union Waiting]
  BY <1>3, <1>5, <1>6
<1>8. ASSUME NEW d \in Calls, calls'[d] # Idle
      PROVE  Carries(calls[d])'
  <2>1. CASE d = c
    BY <1>1, <1>4, <1>5, <1>6, <2>1 DEF Carries
  <2>2. CASE d # c
    <3>1. calls'[d] = calls[d] /\ calls[d] \in Waiting
      BY <1>5, <1>6, <1>8, <2>2
    <3>2. Carries(calls[d]) /\ calls[d].gen \in Nat
      BY <1>8, <3>1, BoundsAssumption DEF QueryInv, Waiting
    <3> QED
      BY <1>1, <3>1, <3>2 DEF Carries
  <2> QED
    BY <2>1, <2>2
<1>9. LoadingHasLoad'
  BY <1>3, <1>4, <1>5, <1>6, WaitingIsNotIdle DEF LoadingHasLoad, Current
<1>10. LQTypeOK'
  <2>1. since' \in 0..MaxVersion
    BY PageKeysAreKeys, ServedVersion DEF RunEffects, QueryInv, LQTypeOK
  <2> QED
    BY <1>1, <1>2, <1>7, <2>1, BoundsAssumption
       DEF RunEffects, QueryInv, LQTypeOK, PageKeys, KeyNamespaces, pageVars,
           envVars
<1> QED
  BY <1>2, <1>8, <1>9, <1>10 DEF RunEffects, QueryInv

LEMMA RefetchKeeps ==
  ASSUME QueryInv, NEW c \in Calls, Refetch(c)
  PROVE  QueryInv'
<1> DEFINE w == Started("load", "rows")
<1>1. /\ w \in Waiting /\ w.op = "load" /\ w.step = "rows"
      /\ w.gen = gen /\ w.key = fetchKey
  BY StartedWaits DEF QueryInv, Ops
<1>2. calls' = [calls EXCEPT ![c] = w] /\ UNCHANGED <<gen, fetchKey>>
  BY DEF Refetch
<1> HIDE DEF w
<1>3. /\ calls' \in [Calls -> {Idle} \union Waiting]
      /\ \A d \in Calls : (calls[d] # Idle => Carries(calls[d]))'
  BY <1>1, <1>2, CallReplaced
<1>4. LoadingHasLoad'
  BY <1>1, <1>2, WaitingIsNotIdle
     DEF QueryInv, LQTypeOK, LoadingHasLoad, Current
<1> QED
  BY <1>3, <1>4
     DEF Refetch, QueryInv, LQTypeOK, PageKeys, KeyNamespaces, pageVars,
         envVars

LEMMA FiresKeeps ==
  ASSUME QueryInv, NEW c \in Calls, NEW op \in Ops,
         NEW step \in {"rows", "poll"}, step = "poll" => op # "load",
         Fires(c, op, step)
  PROVE  QueryInv'
<1> DEFINE w == Started(op, step)
<1>1. /\ w \in Waiting /\ w.op = op /\ w.step = step
      /\ w.gen = gen /\ w.key = fetchKey
  BY StartedWaits DEF QueryInv
<1>2. /\ calls' = [calls EXCEPT ![c] = w] /\ calls[c] = Idle
      /\ UNCHANGED <<gen, fetchKey, loading>>
  BY DEF Fires, queryVars
<1> HIDE DEF w
<1>3. /\ calls' \in [Calls -> {Idle} \union Waiting]
      /\ \A d \in Calls : (calls[d] # Idle => Carries(calls[d]))'
  BY <1>1, <1>2, CallReplaced
<1>4. LoadingHasLoad'
  BY <1>2, LoadKept
<1> QED
  BY <1>3, <1>4
     DEF Fires, QueryInv, LQTypeOK, PageKeys, KeyNamespaces, pageVars,
         envVars, queryVars

\* A call ends: with nothing else changed but by the answer of one that is
\* no load, or with the spinner gone.
LEMMA FinishKeeps ==
  ASSUME QueryInv, NEW c \in Calls, Finish(c), UNCHANGED <<gen, fetchKey>>
  PROVE  /\ calls' \in [Calls -> {Idle} \union Waiting]
         /\ \A d \in Calls : (calls[d] # Idle => Carries(calls[d]))'
         /\ \/ ~loading'
            \/ loading' = loading /\ ~(calls[c].op = "load" /\ Current(c))
            => LoadingHasLoad'
<1>1. calls' = [calls EXCEPT ![c] = Idle]
  BY DEF Finish
<1>2. /\ calls' \in [Calls -> {Idle} \union Waiting]
      /\ \A d \in Calls : (calls[d] # Idle => Carries(calls[d]))'
  BY <1>1, CallReplaced
<1>3. CASE ~loading'
  BY <1>2, <1>3 DEF LoadingHasLoad
<1>4. CASE loading' = loading /\ ~(calls[c].op = "load" /\ Current(c))
  BY <1>1, <1>2, <1>4, LoadKept
<1> QED
  BY <1>2, <1>3, <1>4

LEMMA DroppedKeeps ==
  ASSUME QueryInv, NEW c \in Calls, Dropped(c)
  PROVE  QueryInv'
<1>1. /\ calls' \in [Calls -> {Idle} \union Waiting]
      /\ \A d \in Calls : (calls[d] # Idle => Carries(calls[d]))'
      /\ LoadingHasLoad'
  BY FinishKeeps DEF Dropped, queryVars
<1> QED
  BY <1>1
     DEF Dropped, QueryInv, LQTypeOK, PageKeys, KeyNamespaces, pageVars,
         envVars, queryVars

LEMMA FailedKeeps ==
  ASSUME QueryInv, NEW c \in Calls, Failed(c)
  PROVE  QueryInv'
<1>1. /\ calls' \in [Calls -> {Idle} \union Waiting]
      /\ \A d \in Calls : (calls[d] # Idle => Carries(calls[d]))'
      /\ LoadingHasLoad'
  <2>1. /\ Finish(c) /\ UNCHANGED <<gen, fetchKey>>
        /\ \/ ~loading'
           \/ loading' = loading /\ ~(calls[c].op = "load" /\ Current(c))
    BY DEF Failed
  <2> QED
    BY <2>1, FinishKeeps
<1>2. /\ loading' \in BOOLEAN /\ error' \in BOOLEAN
      /\ revision' \in {None} \union 0..MaxVersion
  <2>1. /\ loading \in BOOLEAN /\ error \in BOOLEAN
        /\ revision \in {None} \union 0..MaxVersion
    BY DEF QueryInv, LQTypeOK
  <2>2. CASE calls[c].op = "load"
    BY <2>1, <2>2 DEF Failed
  <2>3. CASE calls[c].op # "load"
    BY <2>1, <2>3 DEF Failed
  <2> QED
    BY <2>2, <2>3
<1>4. failures' \in 0..MaxFailures
  BY BoundsAssumption DEF Failed, QueryInv, LQTypeOK
<1>3. UNCHANGED <<fetchKey, since, pending, gen, rows, shape, key, refreshOn,
                  health, source, outages>>
  BY DEF Failed, pageVars
<1> QED
  BY <1>1, <1>2, <1>3, <1>4
     DEF QueryInv, LQTypeOK, PageKeys, KeyNamespaces

\* What an answer says belongs to the key of the fetchers.
LEMMA ShownRows ==
  ASSUME QueryInv, NEW c \in Calls, calls[c] # Idle, Current(c),
         NEW v \in Answers(c), ShowRows(c, v)
  PROVE  /\ rows'.key = fetchKey
         /\ rows' \in [key : Keys, version : 0..MaxVersion]
<1>1. calls[c].key = fetchKey
  BY DEF QueryInv, Carries, Current
<1>2. fetchKey \in Keys
  BY PageKeysAreKeys DEF QueryInv, LQTypeOK
<1>3. v \in 0..MaxVersion
  BY AnswerIsVersion DEF QueryInv
<1> QED
  BY <1>1, <1>2, <1>3 DEF ShowRows

\* An answer that goes on to ask for something else.
LEMMA GoesOn ==
  ASSUME QueryInv, NEW c \in Calls, NEW op \in Ops, calls[c].op = op,
         NEW step \in {"rows", "mark"},
         calls' = [calls EXCEPT ![c] = Started(op, step)],
         UNCHANGED <<gen, fetchKey, loading>>
  PROVE  /\ calls' \in [Calls -> {Idle} \union Waiting]
         /\ \A d \in Calls : (calls[d] # Idle => Carries(calls[d]))'
         /\ LoadingHasLoad'
<1> DEFINE w == Started(op, step)
<1>1. /\ w \in Waiting /\ w.op = op /\ w.step = step
      /\ w.gen = gen /\ w.key = fetchKey
  BY StartedWaits DEF QueryInv
<1>2. w # Idle
  BY <1>1, WaitingIsNotIdle
<1>3. calls' = [calls EXCEPT ![c] = w]
  OBVIOUS
<1> HIDE DEF w
<1>4. LoadingHasLoad'
  BY <1>1, <1>2, <1>3, LoadKept
<1> QED
  BY <1>1, <1>3, <1>4, CallReplaced

LEMMA AnsweredKeeps ==
  ASSUME QueryInv, NEW c \in Calls, Answered(c)
  PROVE  QueryInv'
<1> PICK v \in Answers(c) :
      \/ LoadAnswered(c, v) \/ LoadMarked(c, v)
      \/ TickAnswered(c, v) \/ TickMarked(c, v)
      \/ RevisionAnswered(c, v)
  BY DEF Answered
<1>1. calls[c] # Idle /\ calls[c] \in Waiting
  BY DEF Answered, QueryInv, LQTypeOK
<1>2. v \in 0..MaxVersion
  BY <1>1, AnswerIsVersion DEF QueryInv
<1>3. Current(c) /\ UNCHANGED <<fetchKey, since, pending, gen, pageVars, envVars>>
  BY DEF LoadAnswered, LoadMarked, TickAnswered, TickMarked,
         RevisionAnswered
<1>4. calls[c].op \in Ops
  BY <1>1 DEF Waiting
<1>5. /\ calls' \in [Calls -> {Idle} \union Waiting]
      /\ \A d \in Calls : (calls[d] # Idle => Carries(calls[d]))'
      /\ LoadingHasLoad'
  <2>1. CASE LoadAnswered(c, v) /\ shape.polled
    BY <1>3, <2>1, GoesOn DEF LoadAnswered, Ops
  <2>2. CASE LoadAnswered(c, v) /\ ~shape.polled
    <3>1. Finish(c) /\ ~loading'
      BY <2>2 DEF LoadAnswered
    <3> QED
      BY <1>3, <3>1, FinishKeeps
  <2>3. CASE LoadMarked(c, v)
    BY <1>3, <2>3, FinishKeeps DEF LoadMarked
  <2>4. CASE TickAnswered(c, v)
    <3>1. CASE calls[c].op = "dataplane"
      BY <1>3, <2>4, <3>1, GoesOn DEF TickAnswered, Ops
    <3>2. CASE calls[c].op # "dataplane"
      BY <1>3, <2>4, <3>2, FinishKeeps DEF TickAnswered
    <3> QED
      BY <3>1, <3>2
  <2>5. CASE TickMarked(c, v)
    BY <1>3, <2>5, FinishKeeps DEF TickMarked
  <2>6. CASE RevisionAnswered(c, v)
    <3>1. calls[c].op # "load" /\ loading' = loading
      BY <1>1, <2>6 DEF RevisionAnswered, QueryInv, Carries
    <3>2. CASE Finish(c)
      BY <1>3, <3>1, <3>2, FinishKeeps
    <3>3. CASE calls' = [calls EXCEPT ![c] = Started("revision", "rows")]
      <4> DEFINE w == Started("revision", "rows")
      <4>1. /\ w \in Waiting /\ w.op = "revision" /\ w.step = "rows"
            /\ w.gen = gen /\ w.key = fetchKey
        BY StartedWaits DEF QueryInv, Ops
      <4>2. calls' = [calls EXCEPT ![c] = w]
        BY <3>3
      <4> HIDE DEF w
      <4>3. LoadingHasLoad'
        BY <1>3, <3>1, <4>2, LoadKept
      <4> QED
        BY <1>3, <4>1, <4>2, <4>3, CallReplaced
    <3> QED
      BY <2>6, <3>2, <3>3 DEF RevisionAnswered
  <2> QED
    BY <2>1, <2>2, <2>3, <2>4, <2>5, <2>6
<1>6. /\ rows' = rows
      \/ /\ rows'.key = fetchKey
         /\ rows' \in [key : Keys, version : 0..MaxVersion]
  BY <1>1, ShownRows
     DEF LoadAnswered, LoadMarked, TickAnswered, TickMarked, RevisionAnswered
<1>7. /\ loading' \in BOOLEAN /\ error' \in BOOLEAN
      /\ revision' \in {None} \union 0..MaxVersion
  BY <1>2
     DEF LoadAnswered, LoadMarked, TickAnswered, TickMarked,
         RevisionAnswered, QueryInv, LQTypeOK
<1> QED
  BY <1>3, <1>5, <1>6, <1>7
     DEF QueryInv, LQTypeOK, PageKeys, KeyNamespaces, pageVars, envVars

LEMMA QueryInvHolds == LQSpec => []QueryInv
<1>1. LQInit => QueryInv
  <2> SUFFICES ASSUME LQInit PROVE QueryInv
    OBVIOUS
  <2>1. LQTypeOK
    <3>1. calls \in [Calls -> {Idle} \union Waiting]
      BY DEF LQInit
    <3>2. source \in [Contexts \X (Namespaces \union {None})
                        -> 0..MaxVersion]
      BY BoundsAssumption DEF LQInit
    <3>3. gen \in 0..(MaxSwitches + 1)
      BY BoundsAssumption DEF LQInit
    <3>4. failures \in 0..MaxFailures /\ outages \in 0..MaxOutages
      BY BoundsAssumption DEF LQInit
    <3>5. since \in 0..MaxVersion
      BY BoundsAssumption DEF LQInit
    <3> QED
      BY <3>1, <3>2, <3>3, <3>4, <3>5 DEF LQInit, LQTypeOK
  <2>2. \A c \in Calls : calls[c] = Idle
    BY DEF LQInit
  <2>3. gen <= MaxSwitches
    BY BoundsAssumption DEF LQInit
  <2> QED
    BY <2>1, <2>2, <2>3 DEF LQInit, QueryInv, LoadingHasLoad
<1>2. ASSUME QueryInv, [LQNext]_lqVars
      PROVE  QueryInv'
  <2>1. CASE Environment
    BY <1>2, <2>1, EnvironmentKeeps
  <2>2. ASSUME NEW c \in Calls, CallStep(c)
        PROVE  QueryInv'
    <3>1. CASE RunEffects(c)
      BY <1>2, <3>1, RunEffectsKeeps
    <3>2. CASE Refetch(c)
      BY <1>2, <3>2, RefetchKeeps
    <3>3. CASE Fires(c, "interval", "rows")
      BY <1>2, <3>3, FiresKeeps DEF Ops
    <3>4. CASE Fires(c, "revision", "poll")
      BY <1>2, <3>4, FiresKeeps DEF Ops
    <3>5. CASE Fires(c, "dataplane", "rows")
      BY <1>2, <3>5, FiresKeeps DEF Ops
    <3>6. CASE Answered(c)
      BY <1>2, <3>6, AnsweredKeeps
    <3>7. CASE Failed(c)
      BY <1>2, <3>7, FailedKeeps
    <3>8. CASE Dropped(c)
      BY <1>2, <3>8, DroppedKeeps
    <3> QED
      BY <2>2, <3>1, <3>2, <3>3, <3>4, <3>5, <3>6, <3>7, <3>8
         DEF CallStep, IntervalTick, RevisionTick, DataplaneTick
  <2>3. CASE UNCHANGED lqVars
    BY <1>2, <2>3
       DEF lqVars, queryVars, pageVars, envVars, QueryInv, LQTypeOK,
           PageKeys, KeyNamespaces, Carries, LoadingHasLoad, Current
  <2> QED
    BY <1>2, <2>1, <2>2, <2>3 DEF LQNext
<1> QED
  BY <1>1, <1>2, PTL DEF LQSpec

-----------------------------------------------------------------------------
\* The state of a list page has its type.
THEOREM QueryType == LQSpec => []LQTypeOK
<1>1. QueryInv => LQTypeOK
  BY DEF QueryInv
<1> QED
  BY <1>1, QueryInvHolds, PTL

\* No page ever shows the rows of a key it has left, in whatever order its
\* calls are answered and however many are under way.
THEOREM CurrentRows == LQSpec => []RowsOfCurrentKey
<1>1. QueryInv => RowsOfCurrentKey
  BY DEF QueryInv, RowsOfCurrentKey
<1> QED
  BY <1>1, QueryInvHolds, PTL

\* The spinner of a page always has a load to take it away.
THEOREM SpinnerHasLoad == LQSpec => []LoadingHasLoad
<1>1. QueryInv => LoadingHasLoad
  BY DEF QueryInv
<1> QED
  BY <1>1, QueryInvHolds, PTL

-----------------------------------------------------------------------------
(* Refinement.                                                             *)

\* The answer of a call of this generation will not be older than the moment
\* the page was turned to the key, nor is what the server holds.
FreshInv ==
  /\ since =< Served(fetchKey)
  /\ \A c \in Calls :
       calls[c] # Idle /\ calls[c].gen = gen => since =< calls[c].from

LEMMA FreshStarts ==
  ASSUME QueryInv, FreshInv, NEW c \in Calls,
         NEW w, w # Idle => since =< w.from,
         calls' = [calls EXCEPT ![c] = w],
         UNCHANGED <<gen, since, fetchKey, source>>
  PROVE  FreshInv'
<1>1. calls \in [Calls -> {Idle} \union Waiting]
  BY DEF QueryInv, LQTypeOK
<1>2. ASSUME NEW d \in Calls, calls'[d] # Idle, calls'[d].gen = gen
      PROVE  since =< calls'[d].from
  BY <1>1, <1>2 DEF FreshInv
<1> QED
  BY <1>2 DEF FreshInv, Served

\* A call started now will bring nothing older than what is held now.
LEMMA StartedFresh ==
  ASSUME FreshInv, NEW op, NEW step
  PROVE  since =< Started(op, step).from
BY DEF FreshInv, Started

LEMMA RunEffectsFresh ==
  ASSUME QueryInv, NEW c \in Calls, RunEffects(c)
  PROVE  FreshInv'
<1> DEFINE w == [op |-> "load", step |-> "rows", gen |-> gen',
                 key |-> fetchKey', from |-> Served(fetchKey')]
<1>1. /\ calls' = [calls EXCEPT ![c] = w]
      /\ fetchKey' = key /\ since' = Served(key) /\ source' = source
      /\ gen' = gen + 1
  BY DEF RunEffects, envVars
<1>2. since' = Served(fetchKey)' /\ since' = Served(fetchKey')
  BY <1>1 DEF Served
<1>3. w.from = since'
  BY <1>2
<1> HIDE DEF w
<1>4. gen \in Nat /\ calls \in [Calls -> {Idle} \union Waiting]
  BY BoundsAssumption DEF QueryInv, LQTypeOK
<1>5. since' \in Nat
  BY <1>1, PageKeysAreKeys, ServedVersion, BoundsAssumption
     DEF QueryInv, LQTypeOK
<1>6. ASSUME NEW d \in Calls, calls'[d] # Idle, calls'[d].gen = gen'
      PROVE  since' =< calls'[d].from
  <2>1. CASE d = c
    BY <1>1, <1>3, <1>4, <1>5, <2>1
  <2>2. CASE d # c
    <3>1. calls'[d] = calls[d] /\ calls[d].gen =< gen
      BY <1>1, <1>4, <1>6, <2>2 DEF QueryInv, Carries
    <3> QED
      BY <1>1, <1>4, <1>6, <3>1
  <2> QED
    BY <2>1, <2>2
<1> QED
  BY <1>2, <1>5, <1>6 DEF FreshInv

LEMMA SourceChangesFresh ==
  ASSUME QueryInv, FreshInv, NEW b \in DOMAIN source,
         source' = [source EXCEPT ![b] = @ + 1],
         UNCHANGED <<gen, since, fetchKey, calls>>
  PROVE  FreshInv'
<1>1. /\ source \in [Contexts \X (Namespaces \union {None}) -> 0..MaxVersion]
      /\ fetchKey \in Keys /\ since \in Nat
  BY PageKeysAreKeys, BoundsAssumption DEF QueryInv, LQTypeOK
<1>2. Backing(fetchKey) \in Contexts \X (Namespaces \union {None})
  BY <1>1 DEF Backing, Keys
<1>3. \A d \in DOMAIN source : source[d] \in Nat
  BY <1>1, BoundsAssumption
<1>4. source'[Backing(fetchKey)] \in Nat
      /\ source[Backing(fetchKey)] =< source'[Backing(fetchKey)]
  BY <1>1, <1>2, <1>3
<1>5. since =< source'[Backing(fetchKey)]
  BY <1>1, <1>2, <1>3, <1>4 DEF FreshInv, Served
<1> QED
  BY <1>5 DEF FreshInv, Served

LEMMA FreshStep ==
  ASSUME QueryInv, FreshInv, [LQNext]_lqVars
  PROVE  FreshInv'
<1>1. CASE UNCHANGED <<gen, since, fetchKey, source, calls>>
  BY <1>1 DEF FreshInv, Served
<1>2. CASE SourceChanges
  BY <1>2, SourceChangesFresh DEF SourceChanges, queryVars
<1>3. ASSUME NEW c \in Calls, RunEffects(c)
      PROVE  FreshInv'
  BY <1>3, RunEffectsFresh
<1>4. ASSUME NEW c \in Calls, NEW op, NEW step,
             calls' = [calls EXCEPT ![c] = Started(op, step)],
             UNCHANGED <<gen, since, fetchKey, source>>
      PROVE  FreshInv'
  BY <1>4, StartedFresh, FreshStarts
<1>5. ASSUME NEW c \in Calls, Finish(c),
             UNCHANGED <<gen, since, fetchKey, source>>
      PROVE  FreshInv'
  BY <1>5, FreshStarts DEF Finish
<1>6. ASSUME NEW c \in Calls, Answered(c)
      PROVE  FreshInv'
  BY <1>4, <1>5, <1>6
     DEF Answered, LoadAnswered, LoadMarked, TickAnswered, TickMarked,
         RevisionAnswered, envVars
<1> QED
  BY <1>1, <1>2, <1>3, <1>4, <1>5, <1>6
     DEF LQNext, Environment, ChangeKey, SetRefresh, HealthChanges, CallStep,
         Refetch, IntervalTick, RevisionTick, DataplaneTick, Fires, Failed,
         Dropped, lqVars, queryVars, envVars

LEMMA FreshHolds == LQSpec => []FreshInv
<1>1. LQInit => FreshInv
  <2> SUFFICES ASSUME LQInit PROVE FreshInv
    OBVIOUS
  <2>1. fetchKey \in Keys /\ since = 0
    BY PageKeysAreKeys DEF LQInit
  <2>2. Served(fetchKey) = 0
    BY <2>1 DEF LQInit, Served, Backing, Keys
  <2> QED
    BY <2>1, <2>2 DEF LQInit, FreshInv
<1> QED
  BY <1>1, FreshStep, QueryInvHolds, PTL DEF LQSpec

\* The rows of an answer are rows PageRows may show.
LEMMA AnswerShows ==
  ASSUME QueryInv, FreshInv, NEW c \in Calls, calls[c] # Idle, Current(c),
         NEW v \in Answers(c), ShowRows(c, v),
         UNCHANGED <<source, fetchKey, since>>
  PROVE  Pages!Show
<1>1. calls[c].key = fetchKey /\ calls[c] \in Waiting
  BY DEF QueryInv, LQTypeOK, Carries, Current
<1>2. fetchKey \in Keys /\ since \in Nat
  BY PageKeysAreKeys, BoundsAssumption DEF QueryInv, LQTypeOK
<1>3. calls[c].from \in Nat /\ since =< calls[c].from
  BY <1>1, BoundsAssumption DEF Waiting, FreshInv, Current
<1>4. Served(fetchKey) \in Nat
  BY <1>2, ServedVersion, BoundsAssumption DEF QueryInv
<1>5. v \in since..Served(fetchKey)
  BY <1>1, <1>2, <1>3, <1>4 DEF Answers
<1>6. Pages!Held(fetchKey) = Served(fetchKey)
  BY <1>2 DEF Pages!Held, Served
<1> QED
  BY <1>1, <1>5, <1>6 DEF ShowRows, Pages!Show

LEMMA AnsweredRefines ==
  ASSUME QueryInv, FreshInv, NEW c \in Calls, Answered(c)
  PROVE  Pages!Show \/ UNCHANGED Pages!prVars
<1> PICK v \in Answers(c) :
      \/ LoadAnswered(c, v) \/ LoadMarked(c, v)
      \/ TickAnswered(c, v) \/ TickMarked(c, v)
      \/ RevisionAnswered(c, v)
  BY DEF Answered
<1>1. calls[c] # Idle /\ Current(c) /\ UNCHANGED <<source, fetchKey, since>>
  BY DEF Answered, LoadAnswered, LoadMarked, TickAnswered, TickMarked,
         RevisionAnswered, envVars
<1>2. CASE ShowRows(c, v)
  BY <1>1, <1>2, AnswerShows
<1>3. CASE UNCHANGED rows
  BY <1>1, <1>3 DEF Pages!prVars
<1> QED
  BY <1>2, <1>3
     DEF LoadAnswered, LoadMarked, TickAnswered, TickMarked, RevisionAnswered

LEMMA PageRefines ==
  ASSUME QueryInv, FreshInv, [LQNext]_lqVars
  PROVE  [Pages!PRNext]_Pages!prVars
<1>1. CASE UNCHANGED <<source, fetchKey, since, rows>>
  BY <1>1 DEF Pages!prVars
<1>2. CASE SourceChanges
  <2>1. PICK b \in DOMAIN source : source' = [source EXCEPT ![b] = @ + 1]
    BY <1>2 DEF SourceChanges
  <2>2. b \in Contexts \X (Namespaces \union {None})
    BY DEF QueryInv, LQTypeOK
  <2>3. Pages!ServerChanges(b)
    BY <1>2, <2>1 DEF SourceChanges, queryVars, Pages!ServerChanges
  <2> QED
    BY <2>2, <2>3 DEF Pages!PRNext
<1>3. ASSUME NEW c \in Calls, RunEffects(c)
      PROVE  Pages!PRNext
  <2>1. key \in Keys
    BY PageKeysAreKeys DEF QueryInv, LQTypeOK
  <2>2. Pages!Held(key) = Served(key)
    BY <2>1 DEF Pages!Held, Served
  <2>3. Pages!Turn(key)
    BY <1>3, <2>2 DEF RunEffects, envVars, Pages!Turn
  <2> QED
    BY <2>1, <2>3 DEF Pages!PRNext
<1>4. ASSUME NEW c \in Calls, Answered(c)
      PROVE  [Pages!PRNext]_Pages!prVars
  BY <1>4, AnsweredRefines DEF Pages!PRNext
<1> QED
  BY <1>1, <1>2, <1>3, <1>4
     DEF LQNext, Environment, ChangeKey, SetRefresh, HealthChanges, CallStep,
         Refetch, IntervalTick, RevisionTick, DataplaneTick, Fires, Failed,
         Dropped, lqVars, queryVars, envVars

\* Whatever a list page shows, however many calls of however many keys are
\* under way and in whatever order they are answered, is what PageRows
\* promises: rows of its key as the server held them since the page was
\* turned to it.
THEOREM PageRowsRefinement == LQSpec => ImplementsPageRows
<1>1. LQInit => Pages!PRInit
  BY PageKeysAreKeys DEF LQInit, Pages!PRInit
<1> QED
  BY <1>1, PageRefines, QueryInvHolds, FreshHolds, PTL
     DEF LQSpec, ImplementsPageRows, Pages!PRSpec
=============================================================================
