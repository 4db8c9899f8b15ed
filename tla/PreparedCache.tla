---------------------------- MODULE PreparedCache ----------------------------
(***************************************************************************)
(* PreparedCache: the table of prepare verdicts that the statements of a   *)
(* connection share.  Every method runs under the cache's own mutex and is *)
(* one step.  The PREPARE between a decision and the insertion of its      *)
(* result runs without that mutex, so callers interleave there.            *)
(***************************************************************************)
EXTENDS Naturals, Sequences, FiniteSets

CONSTANTS
    Callers,    \* statements that share the cache
    Shapes,     \* normalized query texts
    Capacities, \* configured cache sizes
    Threshold,  \* prepare_threshold: 0 never prepares a plain execution
    MaxUse,     \* bound: use_counter
    MaxIds      \* bound: handles the server gives out

ASSUME CacheAssumption ==
    /\ Capacities \subseteq Nat \ {0}
    /\ Threshold \in Nat /\ MaxUse \in Nat /\ MaxIds \in Nat

VARIABLES
    entries,     \* HashMap: shape -> [outcome, last_used]
    use_counter,
    capacity,
    preparing,   \* the shape each caller has under PREPARE
    slot,        \* the entry each caller's statement holds
    ids,         \* handles given out so far
    used         \* history: the shape looked up or stored last

vars == <<entries, use_counter, capacity, preparing, slot, ids, used>>

NoShape == "none"

Prepared(id) == [kind |-> "prepared", n |-> id]
Literal      == [kind |-> "literal", n |-> 0]
Deferred(n)  == [kind |-> "deferred", n |-> n]
Outcomes     == [kind : {"prepared"}, n : 1..MaxIds] \cup {Literal}
                    \cup [kind : {"deferred"}, n : 0..MaxUse]

NoEntry == [q |-> NoShape, id |-> 0]

Init ==
    /\ entries = <<>> /\ use_counter = 0 /\ capacity \in Capacities
    /\ preparing = [c \in Callers |-> NoShape]
    /\ slot = [c \in Callers |-> NoEntry]
    /\ ids = 0 /\ used = NoShape

-----------------------------------------------------------------------------
Cached(q)    == q \in DOMAIN entries
Outcome(q)   == entries[q].outcome
Is(q, kinds) == Cached(q) /\ Outcome(q).kind \in kinds

Without(e, q) == [r \in DOMAIN e \ {q} |-> e[r]]
With(e, q, x) == [r \in DOMAIN e \cup {q} |-> IF r = q THEN x ELSE e[r]]

\* trim drops the smallest last_used until capacity entries are left.
trim(e, n) ==
    [q \in { q \in DOMAIN e :
               Cardinality({ r \in DOMAIN e : e[r].last_used > e[q].last_used }) < n } |-> e[q]]

\* Mutant: a lookup does not count as a use.
Touched_notAUse(q, u) == entries

\* entries.get_mut(q).last_used = u
Touched(q, u) == IF Cached(q) THEN [entries EXCEPT ![q].last_used = u] ELSE entries

\* entries.insert(q, o) followed by trim.
Stored(q, o, u) == trim(With(entries, q, [outcome |-> o, last_used |-> u]), capacity)

\* next_use k times.
next_use(k) == use_counter' = use_counter + k /\ use_counter + k <= MaxUse

\* The caller's statement holds what the call returned.
Hold(c, q) ==
    slot' = [slot EXCEPT ![c] =
        IF q \in DOMAIN entries' /\ entries'[q].outcome.kind = "prepared"
          THEN [q |-> q, id |-> entries'[q].outcome.n] ELSE NoEntry]

-----------------------------------------------------------------------------
(* prepare_decision.                                                        *)

\* A settled verdict is returned as it is.
DecideCached(c, q) ==
    /\ Is(q, {"prepared", "literal"})
    /\ entries' = Touched(q, use_counter + 1)
    /\ used' = q /\ Hold(c, q) /\ UNCHANGED preparing

\* Mutant: the execution that reaches the threshold is deferred as well.
Defers_late(n) == Threshold = 0 \/ n <= Threshold

\* threshold == 0 || executions < threshold
Defers(n) == Threshold = 0 \/ n < Threshold

\* A deferred shape stays deferred: a declaration leaves its count alone.
DecideDeferred(c, q, request) ==
    LET n == Outcome(q).n + (IF request = "execute" THEN 1 ELSE 0) IN
    /\ Is(q, {"deferred"})
    /\ request = "declare" \/ (request = "execute" /\ Defers(n))
    /\ entries' = [entries EXCEPT ![q] = [outcome |-> Deferred(n),
                                          last_used |-> use_counter + 1]]
    /\ used' = q /\ Hold(c, q) /\ UNCHANGED preparing

\* A deferred shape is due: it leaves the table and is prepared.
DecideDue(c, q, request) ==
    /\ Is(q, {"deferred"})
    /\ request = "force" \/ (request = "execute" /\ ~Defers(Outcome(q).n + 1))
    /\ entries' = Without(entries, q)
    /\ preparing' = [preparing EXCEPT ![c] = q] /\ UNCHANGED <<slot, used>>

\* An unknown shape is deferred or prepared at once.
DecideUnknown(c, q, request) ==
    /\ ~Cached(q) /\ used' = q
    /\ IF request # "force" /\ Threshold # 1
         THEN /\ entries' = Stored(q, Deferred(IF request = "execute" THEN 1 ELSE 0),
                                   use_counter + 1)
              /\ Hold(c, q) /\ UNCHANGED preparing
         ELSE /\ preparing' = [preparing EXCEPT ![c] = q]
              /\ UNCHANGED <<entries, slot>>

prepare_decision(c, q, request) ==
    /\ preparing[c] = NoShape
    /\ \/ DecideCached(c, q) \/ DecideDeferred(c, q, request)
       \/ DecideDue(c, q, request) \/ DecideUnknown(c, q, request)
    /\ next_use(1)
    /\ UNCHANGED <<capacity, ids>>

-----------------------------------------------------------------------------
(* PREPARE has answered.                                                    *)

\* insert keeps an entry that is already prepared.
Winner(q) == Is(q, {"prepared"})

\* insert: the candidate, or the entry another caller was first with.
insert(c) ==
    LET q == preparing[c] IN
    /\ q # NoShape /\ ids < MaxIds /\ ids' = ids + 1
    /\ IF Winner(q)
         THEN entries' = Touched(q, use_counter + 1) /\ next_use(1)
         ELSE entries' = Stored(q, Prepared(ids + 1), use_counter + 2) /\ next_use(2)
    /\ used' = q /\ Hold(c, q)
    /\ preparing' = [preparing EXCEPT ![c] = NoShape]
    /\ UNCHANGED capacity

\* insert_literal: the server refused to prepare the statement itself.
insert_literal(c) ==
    LET q == preparing[c] IN
    /\ q # NoShape
    /\ IF Is(q, {"prepared", "literal"})
         THEN entries' = Touched(q, use_counter + 1) /\ next_use(1)
         ELSE entries' = Stored(q, Literal, use_counter + 2) /\ next_use(2)
    /\ used' = q /\ Hold(c, q)
    /\ preparing' = [preparing EXCEPT ![c] = NoShape]
    /\ UNCHANGED <<capacity, ids>>

\* A transient diagnostic records no verdict.
PrepareFails(c) ==
    /\ preparing[c] # NoShape
    /\ preparing' = [preparing EXCEPT ![c] = NoShape]
    /\ UNCHANGED <<entries, use_counter, capacity, slot, ids, used>>

-----------------------------------------------------------------------------
(* The other users of the table.                                            *)

\* get, then PREPARE unless the shape is prepared: prepare_cached.
prepare_cached(c, q) ==
    /\ preparing[c] = NoShape
    /\ entries' = Touched(q, use_counter + 1) /\ next_use(1) /\ used' = q
    /\ IF Is(q, {"prepared"})
         THEN Hold(c, q) /\ UNCHANGED preparing
         ELSE preparing' = [preparing EXCEPT ![c] = q] /\ UNCHANGED slot
    /\ UNCHANGED <<capacity, ids>>

\* remove_if_id: the caller's handle is gone at the server, it prepares again.
remove_if_id(c) ==
    LET s == slot[c] IN
    /\ preparing[c] = NoShape /\ s # NoEntry
    /\ entries' = IF Cached(s.q) /\ Outcome(s.q) = Prepared(s.id)
                    THEN Without(entries, s.q) ELSE entries
    /\ UNCHANGED <<use_counter, capacity, preparing, slot, ids, used>>

\* Mutant: the demotion does not compare the handle.
Demotes_anyHandle(q, id) == ~Is(q, {"literal"})

\* replace_prepared_with_literal leaves other handles and other verdicts alone.
Demotes(q, id) == ~(Is(q, {"literal"}) \/ (Is(q, {"prepared"}) /\ Outcome(q).n # id))

replace_prepared_with_literal(c) ==
    LET s == slot[c] IN
    /\ preparing[c] = NoShape /\ s # NoEntry
    /\ IF Demotes(s.q, s.id)
         THEN entries' = Stored(s.q, Literal, use_counter + 1) /\ next_use(1) /\ used' = s.q
         ELSE UNCHANGED <<entries, use_counter, used>>
    /\ slot' = [slot EXCEPT ![c] = NoEntry]
    /\ UNCHANGED <<capacity, preparing, ids>>

\* clear: DDL or a closed session.
clear ==
    /\ entries' = <<>>
    /\ UNCHANGED <<use_counter, capacity, preparing, slot, ids, used>>

set_capacity(n) ==
    /\ capacity' = n /\ entries' = trim(entries, n)
    /\ UNCHANGED <<use_counter, preparing, slot, ids, used>>

Next ==
    \/ \E c \in Callers :
        \/ \E q \in Shapes : \/ \E r \in {"declare", "execute", "force"} : prepare_decision(c, q, r)
                             \/ prepare_cached(c, q)
        \/ insert(c) \/ insert_literal(c) \/ PrepareFails(c)
        \/ remove_if_id(c) \/ replace_prepared_with_literal(c)
    \/ clear
    \/ \E n \in Capacities : set_capacity(n)

Spec == Init /\ [][Next]_vars

-----------------------------------------------------------------------------
(* Properties.                                                              *)

\* Type correctness of the table and of the callers.
TypeOK ==
    /\ DOMAIN entries \subseteq Shapes
    /\ \A q \in DOMAIN entries :
        Outcome(q) \in Outcomes /\ entries[q].last_used \in 1..use_counter
    /\ preparing \in [Callers -> Shapes \cup {NoShape}]
    /\ \A c \in Callers : slot[c] = NoEntry \/ slot[c] \in [q : Shapes, id : 1..ids]

\* A deferred shape has not reached prepare_threshold, whoever counted its
\* executions and whatever was evicted in between: the execution that reaches
\* the threshold is prepared and none past it is sent as a literal.
DeferredBelowThreshold ==
    \A q \in DOMAIN entries :
        Outcome(q).kind = "deferred" =>
            Threshold # 1 /\ (Threshold = 0 \/ Outcome(q).n < Threshold)

\* The shapes used no later than q.
Rank(e, q) == Cardinality({ r \in DOMAIN e : e[r].last_used <= e[q].last_used })

\* The table by recency, least recent first.
Recency(e) ==
    [i \in 1..Cardinality(DOMAIN e) |->
        LET q == CHOOSE q \in DOMAIN e : Rank(e, q) = i IN [q |-> q, outcome |-> e[q].outcome]]
ByRecency == Recency(entries)

Lru == INSTANCE LruCache WITH table <- ByRecency, size <- capacity

\* The counters and the trim loop implement a least-recently-used table that
\* never holds more than its capacity: every method is one step of LruCache.
ImplementsLru == Lru!Spec

\* A prepared verdict is never replaced by another handle: two callers that
\* prepare one shape at once share the entry of the first, and only a holder of
\* that very handle can demote it to a literal, however late its call comes.
FirstHandleStays ==
    [][\A q \in DOMAIN entries \cap DOMAIN entries' :
         Outcome(q).kind = "prepared" =>
            \/ entries'[q].outcome = Outcome(q)
            \/ /\ entries'[q].outcome = Literal
               /\ \E c \in Callers : /\ slot[c] = [q |-> q, id |-> Outcome(q).n]
                                     /\ slot'[c] = NoEntry]_vars
=============================================================================
