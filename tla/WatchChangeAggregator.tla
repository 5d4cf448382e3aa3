----------------------- MODULE WatchChangeAggregator -----------------------
(***************************************************************************)
(* Collecting the changes that the backend sends on the watch stream until *)
(* they make up a consistent snapshot (remote/remote_event.cc).            *)
(*                                                                         *)
(* An aggregator a is [states, resets]: target_states_ and                 *)
(* pending_target_resets_.  A TargetState is                               *)
(*                                                                         *)
(*   here     target_states_ has an entry for the target                   *)
(*   out      outstanding_responses_                                       *)
(*   changes  document_changes_, "none" for a document without an entry    *)
(*   token    resume_token_, 0 if it is empty                              *)
(*   current  current_                                                     *)
(*   pending  has_pending_changes_                                         *)
(*                                                                         *)
(* The operators take what the TargetMetadataProvider knows: on, the set   *)
(* of targets the client listens to, and keys, the documents that the last *)
(* snapshot had in every target.  The contents of documents are left out.  *)
(***************************************************************************)
EXTENDS Integers, FiniteSets

CONSTANTS
    NumTargets,    \* the target ids are 1..NumTargets
    NumDocs        \* the document keys are 1..NumDocs

ASSUME TargetAssumption == NumTargets \in Nat /\ NumDocs \in Nat

Targets == 1..NumTargets
Docs == 1..NumDocs

ChangeTypes == {"none", "added", "modified", "removed"}

TargetState ==
    [here : BOOLEAN, out : Int, changes : [Docs -> ChangeTypes], token : Nat,
     current : BOOLEAN, pending : BOOLEAN]

-----------------------------------------------------------------------------
(* TargetState                                                             *)

NewTargetState ==
    [here |-> FALSE, out |-> 0, changes |-> [d \in Docs |-> "none"],
     token |-> 0, current |-> FALSE, pending |-> TRUE]

IsPending(s) == s.out # 0

UpdateResumeToken(s, token) ==
    IF token = 0 THEN s ELSE [s EXCEPT !.pending = TRUE, !.token = token]

DocumentsOf(s, type) == {d \in Docs : s.changes[d] = type}

ToTargetChange(s) ==
    [token |-> s.token, current |-> s.current,
     added |-> DocumentsOf(s, "added"), modified |-> DocumentsOf(s, "modified"),
     removed |-> DocumentsOf(s, "removed")]

ClearPendingChanges(s) ==
    [s EXCEPT !.pending = FALSE, !.changes = [d \in Docs |-> "none"]]

RecordPendingTargetRequests(s, n) == [s EXCEPT !.here = TRUE, !.out = @ + n]

RecordTargetResponse(s) == [s EXCEPT !.here = TRUE, !.out = @ - 1]

MarkCurrent(s) == [s EXCEPT !.pending = TRUE, !.current = TRUE]

AddDocumentChange(s, d, type) ==
    [s EXCEPT !.here = TRUE, !.pending = TRUE, !.changes[d] = type]

RemoveDocumentChange(s, d) == AddDocumentChange(s, d, "none")

-----------------------------------------------------------------------------
(* WatchChangeAggregator                                                   *)

NewAggregator ==
    [states |-> [t \in Targets |-> NewTargetState], resets |-> {}]

EnsureTargetState(a, t) == [a EXCEPT !.states[t].here = TRUE]

\* Mutant: a target counts as active while responses are outstanding.
IsActiveThoughPending(a, on, t) == t \in on

IsActiveTarget(a, on, t) == t \in on /\ ~IsPending(a.states[t])

AddDocumentToTarget(a, on, keys, t, d) ==
    IF ~IsActiveTarget(a, on, t) THEN a
    ELSE [a EXCEPT !.states[t] =
            AddDocumentChange(@, d, IF d \in keys[t] THEN "modified"
                                                     ELSE "added")]

RemoveDocumentFromTarget(a, on, keys, t, d) ==
    IF ~IsActiveTarget(a, on, t) THEN a
    ELSE [a EXCEPT !.states[t] =
            IF d \in keys[t] THEN AddDocumentChange(@, d, "removed")
                             ELSE RemoveDocumentChange(@, d)]

RemoveTarget(a, t) == [a EXCEPT !.states[t] = NewTargetState]

\* Mutant: no removals are synthesized.
ResetTargetOnly(a, keys, t) ==
    [a EXCEPT !.states[t] = [NewTargetState EXCEPT !.here = TRUE]]

\* ResetTarget(): a fresh state with a removal of every known document.
ResetTarget(a, keys, t) ==
    [a EXCEPT !.states[t] =
        [NewTargetState EXCEPT
           !.here = TRUE,
           !.changes = [d \in Docs |-> IF d \in keys[t] THEN "removed"
                                                        ELSE "none"]]]

\* HandleTargetChange() for each WatchTargetChangeState.
HandleAdded(a, t) ==
    LET s == RecordTargetResponse(a.states[t])
    IN  [a EXCEPT !.states[t] = IF IsPending(s) THEN s
                                                ELSE ClearPendingChanges(s)]

HandleRemoved(a, t) ==
    LET s == RecordTargetResponse(a.states[t])
    IN  IF IsPending(s) THEN [a EXCEPT !.states[t] = s] ELSE RemoveTarget(a, t)

HandleCurrent(a, on, t, token) ==
    IF ~IsActiveTarget(a, on, t) THEN EnsureTargetState(a, t)
    ELSE [EnsureTargetState(a, t) EXCEPT
            !.states[t] = UpdateResumeToken(MarkCurrent(@), token)]

HandleReset(a, on, keys, t) ==
    IF ~IsActiveTarget(a, on, t) THEN EnsureTargetState(a, t)
    ELSE ResetTarget(a, keys, t)

\* NoChange without target ids applies to GetTargetIds(), all active targets
\* that have a state.
HandleNoChange(a, on, token) ==
    [a EXCEPT !.states =
        [t \in Targets |->
            IF a.states[t].here /\ IsActiveTarget(a, on, t)
            THEN UpdateResumeToken(a.states[t], token) ELSE a.states[t]]]

GetCurrentDocumentCountForTarget(a, keys, t) ==
    Cardinality(keys[t]) + Cardinality(DocumentsOf(a.states[t], "added"))
                         - Cardinality(DocumentsOf(a.states[t], "removed"))

\* HandleExistenceFilter() for a target that is not a single document.
HandleExistenceFilter(a, on, keys, t, count) ==
    IF ~IsActiveTarget(a, on, t) THEN a
    ELSE IF GetCurrentDocumentCountForTarget(a, keys, t) = count
    THEN EnsureTargetState(a, t)
    ELSE [ResetTarget(a, keys, t) EXCEPT !.resets = @ \cup {t}]

\* CreateRemoteEvent(): the targets of the event; ToTargetChange() is the
\* change of each of them, a.resets the mismatches.
ChangedTargets(a, on) ==
    {t \in Targets : /\ a.states[t].here /\ a.states[t].pending
                     /\ IsActiveTarget(a, on, t)}

\* ... and what it leaves behind.
ClearAfterEvent(a, on) ==
    [states |-> [t \in Targets |->
                   IF t \in ChangedTargets(a, on)
                   THEN ClearPendingChanges(a.states[t]) ELSE a.states[t]],
     resets |-> {}]
=============================================================================
