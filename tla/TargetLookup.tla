---------------------------- MODULE TargetLookup ----------------------------
(***************************************************************************)
(* The delegation resolver: Tuf::target_description and its inner        *)
(* function lookup (src/src/tuf.rs 500-575).  One query is made against   *)
(* a trusted state: the top-level targets (its direct hit for the query   *)
(* path and its delegations section) and the map Tuf::delegations of      *)
(* loaded delegated targets documents.  The query path is fixed; a        *)
(* delegation's path patterns are abstracted to whether they admit it,    *)
(* and a delegated document to whether it is expired at the time of the   *)
(* query, whether it lists the path, and its own delegations section.     *)
(* A description is identified by the role whose document lists it.       *)
(*                                                                         *)
(* The module defines lookup recursively, so it is checked by TLC only.   *)
(***************************************************************************)
EXTENDS Naturals, Sequences, SequencesExt

CONSTANTS
    Roles,          \* delegated role names (MetadataPath)
    MaxEntries,     \* bound on the length of a Delegations role list
    NoDoc,          \* None: no delegated document loaded for a role
    NoDelegations,  \* None: a targets document without a delegations section
    NoAnswer,       \* Err(TargetUnavailable)
    Unqueried       \* no query made yet

ASSUME RolesAssumption == Roles # {} /\ MaxEntries \in Nat \ {0}

TargetsRole == "targets"

\* A Delegation entry: role, terminating flag, and whether its path
\* patterns admit the query path.
Entries == [role : Roles, terminating : BOOLEAN, admits : BOOLEAN]

DelegationSections == {NoDelegations} \cup BoundedSeq(Entries, MaxEntries)

\* A loaded delegated targets document, as lookup reads it.
Docs == [expired : BOOLEAN, hit : BOOLEAN, delegations : DelegationSections]

Answers == Roles \cup {TargetsRole, NoAnswer}

VARIABLES
    topHit,         \* targets.targets().get(target_path) is Some
    top,            \* targets.delegations()
    delegated,      \* Tuf::delegations, role -> document or NoDoc
    answer          \* the result of target_description

vars == <<topHit, top, delegated, answer>>

(***************************************************************************)
(* VirtualTargetPath::matches_chain: every pattern of the chain of parent  *)
(* delegations admits the path.                                            *)
(***************************************************************************)
matches_chain(parents) == \A i \in 1..Len(parents) : parents[i]

\* Mutant: the expiry check of a delegated document left out.
expired_never(doc) == FALSE

\* targets.expires() <= &Utc::now()
expired_now(doc) == doc.expired

\* The value of one call of lookup: its (terminating, description) pair and
\* the visited set it leaves behind, which the caller goes on with.
Out(term, res, visited) == [term |-> term, res |-> res, visited |-> visited]

(***************************************************************************)
(* lookup(tuf, default_terminate, current_depth, target_path, delegations,*)
(* parents, visited) from the i-th delegation of the list on: the for     *)
(* loop, its early returns and its recursive call, in the code's order.   *)
(***************************************************************************)
RECURSIVE lookup(_, _, _, _, _, _)
lookup(default_terminate, current_depth, delegations, parents, visited, i) ==
    IF i > Len(delegations) THEN Out(default_terminate, NoAnswer, visited)
    ELSE
    LET d   == delegations[i]
        v   == visited \cup {d.role}
        doc == delegated[d.role]
        Continue(vis) ==
            lookup(default_terminate, current_depth, delegations, parents, vis, i + 1)
    IN
    IF d.role \in visited THEN Out(d.terminating, NoAnswer, visited)
    ELSE IF current_depth > 0 /\ ~matches_chain(parents)
         THEN Out(d.terminating, NoAnswer, v)
    ELSE IF doc = NoDoc THEN Out(d.terminating, NoAnswer, v)
    ELSE IF expired_now(doc) THEN Out(d.terminating, NoAnswer, v)
    ELSE IF doc.hit THEN Out(d.terminating, d.role, v)
    ELSE IF doc.delegations = NoDelegations THEN Continue(v)
    ELSE LET r == lookup(d.terminating, current_depth + 1, doc.delegations,
                         Append(parents, d.admits), v, 1)
         IN IF r.term THEN Out(TRUE, r.res, r.visited)
            ELSE IF r.res # NoAnswer THEN r
            ELSE Continue(r.visited)

\* Tuf::target_description, after its safe_*_ref gates have passed.
target_description ==
    IF topHit THEN TargetsRole
    ELSE IF top = NoDelegations THEN NoAnswer
    ELSE lookup(FALSE, 0, top, <<>>, {}, 1).res

(***************************************************************************)
(* Every trusted state the resolver can be asked about: any top-level      *)
(* targets and any set of loaded delegated documents.                      *)
(***************************************************************************)
Init ==
    /\ topHit \in BOOLEAN
    /\ top \in DelegationSections
    /\ delegated \in [Roles -> Docs \cup {NoDoc}]
    /\ answer = Unqueried

Query ==
    /\ answer = Unqueried
    /\ answer' = target_description
    /\ UNCHANGED <<topHit, top, delegated>>

Next == Query

Spec == Init /\ [][Next]_vars

-----------------------------------------------------------------------------
(***************************************************************************)
(* The reference: the depth-first preorder search of spec section 4.5     *)
(* with the glossary's termination rule.  Every branch yields a           *)
(* (terminating, description) pair; a description ends the search, a     *)
(* terminating miss ends it, and a non-terminating miss goes on with the  *)
(* next sibling.  A subtree searched to its end without an answer is a    *)
(* miss of the delegation that leads to it.                               *)
(***************************************************************************)
RECURSIVE PreorderBranch(_, _, _, _), PreorderList(_, _, _, _, _)
PreorderBranch(d, depth, parents, visited) ==
    LET v   == visited \cup {d.role}
        doc == delegated[d.role]
        Miss(vis) == Out(d.terminating, NoAnswer, vis)
    IN
    CASE d.role \in visited                        -> Miss(visited)
      [] depth > 0 /\ ~matches_chain(parents)      -> Miss(v)
      [] doc = NoDoc \/ doc.expired                -> Miss(v)
      [] doc.hit                                   -> Out(d.terminating, d.role, v)
      [] doc.delegations = NoDelegations           -> Miss(v)
      [] OTHER ->
           LET sub == PreorderList(doc.delegations, depth + 1,
                                   Append(parents, d.admits), v, 1)
           IN IF sub.res # NoAnswer \/ sub.term THEN sub ELSE Miss(sub.visited)

PreorderList(list, depth, parents, visited, i) ==
    IF i > Len(list) THEN Out(FALSE, NoAnswer, visited)
    ELSE LET b == PreorderBranch(list[i], depth, parents, visited)
         IN IF b.res # NoAnswer \/ b.term THEN b
            ELSE PreorderList(list, depth, parents, b.visited, i + 1)

PreorderAnswer ==
    IF topHit THEN TargetsRole
    ELSE IF top = NoDelegations THEN NoAnswer
    ELSE PreorderList(top, 0, <<>>, {}, 1).res

\* The chains of delegations from the top-level targets along which a
\* search descends: each entry is listed by the document of the one
\* before it, and every document but the last is loaded and unexpired.
DelegationChains ==
    {c \in BoundedSeq(Entries, Cardinality(Roles)) :
        /\ c # <<>>
        /\ top # NoDelegations
        /\ c[1] \in ToSet(top)
        /\ \A j \in 1..(Len(c) - 1) :
              LET doc == delegated[c[j].role]
              IN /\ doc # NoDoc
                 /\ ~doc.expired
                 /\ doc.delegations # NoDelegations
                 /\ c[j + 1] \in ToSet(doc.delegations)}

-----------------------------------------------------------------------------
TypeOK ==
    /\ topHit \in BOOLEAN
    /\ top \in DelegationSections
    /\ delegated \in [Roles -> Docs \cup {NoDoc}]
    /\ answer \in Answers \cup {Unqueried}

(***************************************************************************)
(* A description target_description returns from a delegated role comes   *)
(* from a document that is loaded, unexpired and lists the path, reached  *)
(* along a chain of delegations whose ancestors' path patterns all admit  *)
(* the path (the depth > 0 matches_chain check of tuf.rs 527).            *)
(***************************************************************************)
LookupAnswerTrusted ==
    answer \in Roles =>
        /\ delegated[answer] # NoDoc
        /\ ~delegated[answer].expired
        /\ delegated[answer].hit
        /\ \E c \in DelegationChains :
              /\ c[Len(c)].role = answer
              /\ \A j \in 1..(Len(c) - 1) : c[j].admits

(***************************************************************************)
(* A delegated role answers only for paths its delegation admits: the     *)
(* chain that leads to it admits the path at every level, its own         *)
(* delegation's patterns included (glossary: a delegation authorizes a    *)
(* role for a subset of target paths).                                    *)
(***************************************************************************)
LookupRespectsDelegatedPaths ==
    answer \in Roles =>
        \E c \in DelegationChains :
            /\ c[Len(c)].role = answer
            /\ \A j \in 1..Len(c) : c[j].admits

(***************************************************************************)
(* lookup returns what the preorder search of section 4.5 returns: a      *)
(* non-terminating delegation that is not loaded, expired or not matching *)
(* does not end the search, and a terminating one does.                   *)
(***************************************************************************)
LookupMatchesPreorder ==
    answer # Unqueried => answer = PreorderAnswer

=============================================================================
