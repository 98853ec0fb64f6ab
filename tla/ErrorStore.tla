----------------------------- MODULE ErrorStore -----------------------------
(***************************************************************************)
(* The tree of error collectors that dropshot's procedural macros report   *)
(* to (dropshot_endpoint/src/error_store.rs).  A sink is known by its      *)
(* index, as in the code; 0 stands for the parent of a top-level sink.     *)
(* The loop of ErrorStoreData::push() is taken step by step.               *)
(***************************************************************************)
EXTENDS Naturals, Sequences

CONSTANTS
  Errors,         \* what can be reported
  MaxSinks,       \* bound: sinks that are created
  MaxErrors       \* bound: errors that are pushed

VARIABLES
  errors,         \* ErrorStoreData::errors
  sinks,          \* ErrorStoreData::sinks
  curr,           \* the loop variable of push(), 0 outside of it
  taken,          \* whether into_inner() has consumed the store
  above,          \* history: for each sink, itself and all its ancestors
  origin          \* history: for each error, the sink it was pushed to

vars == <<errors, sinks, curr, taken, above, origin>>

Sinks == DOMAIN sinks

\* ErrorStoreData::register_sink()
register_sink(parent) ==
  /\ Len(sinks) < MaxSinks
  /\ sinks' = Append(sinks, [parent |-> parent, has_errors |-> FALSE])
  /\ UNCHANGED <<errors, curr, taken, origin>>

\* ErrorStore::sink()
sink ==
  /\ curr = 0 /\ ~taken
  /\ register_sink(0)
  /\ above' = Append(above, {Len(sinks) + 1})

\* ErrorSink::new()
new(id) ==
  /\ curr = 0 /\ ~taken
  /\ register_sink(id)
  /\ above' = Append(above, above[id] \union {Len(sinks) + 1})

\* ErrorSink::push() up to the loop
push(id, e) ==
  /\ curr = 0 /\ ~taken
  /\ Len(errors) < MaxErrors
  /\ errors' = Append(errors, e)
  /\ sinks' = [sinks EXCEPT ![id].has_errors = TRUE]
  /\ curr' = id
  /\ origin' = Append(origin, id)
  /\ UNCHANGED <<taken, above>>

\* Faulty variant: only the direct parent learns of an error.
PropagateOnce ==
  /\ curr # 0
  /\ LET parent == sinks[curr].parent
     IN IF parent = 0 THEN UNCHANGED sinks
        ELSE sinks' = [sinks EXCEPT ![parent].has_errors = TRUE]
  /\ curr' = 0
  /\ UNCHANGED <<errors, taken, above, origin>>

\* One turn of the loop: on to the parent, or out.
Propagate ==
  /\ curr # 0
  /\ LET parent == sinks[curr].parent
     IN IF parent = 0
        THEN curr' = 0 /\ UNCHANGED sinks
        ELSE /\ sinks' = [sinks EXCEPT ![parent].has_errors = TRUE]
             /\ curr' = parent
  /\ UNCHANGED <<errors, taken, above, origin>>

\* ErrorStore::into_inner(); the borrow checker sees to it that no sink is
\* used any more.
into_inner ==
  /\ curr = 0 /\ ~taken
  /\ taken' = TRUE
  /\ UNCHANGED <<errors, sinks, curr, above, origin>>

Init ==
  /\ errors = <<>> /\ sinks = <<>> /\ curr = 0 /\ taken = FALSE
  /\ above = <<>> /\ origin = <<>>

Next ==
  \/ sink
  \/ \E id \in Sinks : new(id) \/ \E e \in Errors : push(id, e)
  \/ Propagate
  \/ into_inner

Spec == Init /\ [][Next]_vars

----------------------------------------------------------------------------
(* Properties *)

\* The type of the state; a parent is always an earlier sink, so that the loop
\* of push() follows indices downwards (error_store.rs:133-143).
TypeOK ==
  /\ errors \in Seq(Errors)
  /\ sinks \in Seq([parent: Nat, has_errors: BOOLEAN])
  /\ \A i \in Sinks : sinks[i].parent < i
  /\ curr \in 0..Len(sinks)
  /\ taken \in BOOLEAN
  /\ Len(above) = Len(sinks)
  /\ \A i \in Sinks : above[i] \subseteq 1..i
  /\ origin \in Seq(Sinks)

\* What the comment on ErrorSink promises (error_store.rs:73-76): a sink says
\* that it has errors exactly when one was pushed to it or to a descendant,
\* never because of a sibling, an ancestor or a sink that came later.
HasErrorsExact ==
  curr = 0 => \A i \in Sinks :
    sinks[i].has_errors <=> \E k \in DOMAIN origin : i \in above[origin[k]]

\* The promise of ErrorSink (error_store.rs:73-76), over a store that is well
\* formed.
SinksExact == TypeOK /\ HasErrorsExact

============================================================================
