----------------------------- MODULE SnapshotReads -----------------------------
(***************************************************************************)
(* What an agent reads over several calls at one snapshot.                 *)
(*                                                                         *)
(* A call settles first on a snapshot: the present one, for which it mints *)
(* a token, or the one whose token the agent passes.  Then it reads at     *)
(* that snapshot: it explains a claim, triangulates it, lists the context, *)
(* or gives one page of a search and a cursor for the next.  Meanwhile     *)
(* events are appended, code indexes are built and lost, and the journal   *)
(* is replaced by an older one of itself.                                  *)
(*                                                                         *)
(* A call is two steps because `tools/call` runs two operations; within an *)
(* operation nothing is read beyond the frontier, so that an append in the *)
(* middle changes nothing.  That the present view is the replay of the     *)
(* journal is what WorkspaceCache shows.                                   *)
(*                                                                         *)
(* An event stands for its id, the idempotency key it is appended under,   *)
(* which is made of what it says: a journal holds it once, but one that    *)
(* took another's place may come to hold, at its old position, an event    *)
(* that was lost, after others than before.                                *)
(***************************************************************************)
EXTENDS Naturals, Sequences, SequencesExt

CONSTANTS
  Claims, Codes, Sources,
  ClaimOrder,  \* claims by their identifier
  Ranking,     \* claims and code by how well they match the query
  PageSize,    \* rows a page may hold
  None,
  FirstEvents, \* what the journal holds at first
  MaxJournal,  \* bound: length of the journal
  MaxCut,      \* bound: events that a journal lacks which takes another's place
  MaxReplaced  \* bound: times a journal takes another's place

ASSUME PageAssumption == PageSize \in Nat \ {0}
ASSUME BoundsAssumption == MaxJournal \in Nat /\ MaxReplaced \in Nat
ASSUME OrderAssumption ==
  /\ ClaimOrder \in Seq(Claims) /\ ToSet(ClaimOrder) = Claims /\ IsInjective(ClaimOrder)
  /\ Ranking \in Seq(Claims \cup Codes)
  /\ ToSet(Ranking) = Claims \cup Codes /\ IsInjective(Ranking)

VARIABLES
  journal,   \* events, in order
  replaced,  \* history: times the journal was replaced
  artifact,  \* of each source: whether its code index is on disk
  call,      \* the token of the running call, or None
  held,      \* the token the agent passes with its calls, or None
  search,    \* the agent's search, page by page, or None
  reply,     \* how the last call ended
  said,      \* what the last read said of claims, at which token
  origin,    \* history: the journal when the held token was minted
  since      \* history: what happened to the journal since then

store == <<journal, replaced, artifact>>
agent == <<call, held, search, reply, said, origin>>
vars == <<store, agent, since>>

-----------------------------------------------------------------------------
(* The journal through a frontier *)

Frontier == Len(journal)

\* What an assembly through a frontier replays.
Past(f) == SubSeq(journal, 1, IF f < Frontier THEN f ELSE Frontier)

Happened(event, past) == event \in ToSet(past)

\* The status of every claim, by replaying a journal.
ViewOf(past) ==
  [c \in Claims |-> IF ~Happened(<<"recorded", c>>, past) THEN "absent"
                    ELSE IF Happened(<<"superseded", c>>, past) THEN "superseded"
                    ELSE "current"]

SourcesIn(past) == {n \in DOMAIN past : past[n][1] = "source"}

LatestSource(past) == IF SourcesIn(past) = {} THEN None ELSE past[Max(SourcesIn(past))][2]

\* Whether the index of the snapshot's source is recorded and on disk.
CodeLoaded(token) ==
  /\ token.source # None
  /\ Happened(<<"index", token.source>>, Past(token.frontier))
  /\ artifact[token.source]

-----------------------------------------------------------------------------
(* Tokens *)

Events ==
  ({"recorded", "superseded", "supports", "contradicts"} \X Claims)
    \cup ({"source", "index"} \X Sources)

Tokens ==
  [frontier : 0..MaxJournal, anchor : Events \cup {None}, source : Sources \cup {None}]

ASSUME NoneAssumption == None \notin Sources \cup Events \cup Tokens
ASSUME FirstAssumption == FirstEvents \in Seq(Events) /\ Len(FirstEvents) <= MaxJournal

\* The event at the frontier; no event at 0.
AnchorAt(f) == IF f = 0 THEN None ELSE journal[f]

TokenAt(f) == [frontier |-> f, anchor |-> AnchorAt(f), source |-> LatestSource(Past(f))]

\* Mutation: the position of the anchor is looked up, its identifier is not compared
AnchorThere(token) == token.frontier <= Frontier

AnchorHolds(token) ==
  token.frontier <= Frontier /\ AnchorAt(token.frontier) = token.anchor

SourceHolds(token) == LatestSource(Past(token.frontier)) = token.source

Readable(token) == SourceHolds(token) /\ AnchorHolds(token)

-----------------------------------------------------------------------------
(* What there is to say of a claim *)

Says(c, past, answer) == [claim |-> c, status |-> ViewOf(past)[c], answer |-> answer]

\* explain: what became of the claim comes before the evidence; ...
ExplainedAs(c, past) ==
  IF ViewOf(past)[c] = "superseded" THEN "stale"
  ELSE IF Happened(<<"contradicts", c>>, past) THEN "contradicted"
  ELSE IF Happened(<<"supports", c>>, past) THEN "supported"
  ELSE "unverified"

\* ... triangulate: the other way round.
TriangulatedAs(c, past) ==
  IF Happened(<<"contradicts", c>>, past) THEN "contradicted"
  ELSE IF ViewOf(past)[c] = "superseded" THEN "stale"
  ELSE IF Happened(<<"supports", c>>, past) THEN "supported"
  ELSE "unverified"

-----------------------------------------------------------------------------
(* Calls *)

\* The agent begins to look into something: the call mints a token.
Begin ==
  /\ call = None /\ held = None
  /\ held' = TokenAt(Frontier)
  /\ call' = held'
  /\ origin' = journal
  /\ since' = "same" /\ reply' = "ok" /\ said' = {}
  /\ UNCHANGED <<store, search>>

Pin ==
  /\ call = None /\ held # None /\ reply # "refused"
  /\ IF Readable(held)
     THEN call' = held /\ reply' = "ok"
     ELSE call' = None /\ reply' = "refused"
  /\ said' = {}
  /\ UNCHANGED <<store, held, search, origin, since>>

\* The agent goes on with its search, but passes no token.
Unpinned ==
  /\ call = None /\ search # None /\ reply # "refused"
  /\ call' = TokenAt(Frontier)
  /\ reply' = "ok" /\ said' = {}
  /\ UNCHANGED <<store, held, search, origin, since>>

Forget ==
  /\ call = None /\ held # None
  /\ held' = None /\ search' = None /\ reply' = "ok" /\ said' = {} /\ origin' = <<>>
  /\ since' = "same"
  /\ UNCHANGED <<store, call>>

-----------------------------------------------------------------------------
(* Reading claims *)

\* A call at another token is another snapshot's word.
Say(words) == said' = IF call = held THEN words ELSE {}

Answer(c, answer) ==
  LET past == Past(call.frontier)
  IN /\ call # None
     /\ IF ViewOf(past)[c] = "absent"
        THEN reply' = "missing" /\ Say({Says(c, past, None)})
        ELSE reply' = "ok" /\ Say({Says(c, past, answer)})
     /\ call' = None
     /\ UNCHANGED <<store, held, search, origin, since>>

Explain(c) == call # None /\ Answer(c, ExplainedAs(c, Past(call.frontier)))

Triangulate(c) == call # None /\ Answer(c, TriangulatedAs(c, Past(call.frontier)))

\* Every claim, those that gave way under the claims that hold.
ReadContext ==
  /\ call # None
  /\ Say({Says(c, Past(call.frontier), None) : c \in Claims})
  /\ call' = None /\ reply' = "ok"
  /\ UNCHANGED <<store, held, search, origin, since>>

-----------------------------------------------------------------------------
(* Searching *)

Kinds == {"claims", "knowledge"}
Filters == {"all", "current"}

\* Code is searched for unless a filter asks for claims.
CodeSearched(kind, filter) == kind = "knowledge" /\ filter = "all"

Coded(kind, filter, token) == CodeSearched(kind, filter) /\ CodeLoaded(token)

ClaimRows(filter, past) ==
  {c \in Claims : ViewOf(past)[c] \in
                    IF filter = "all" THEN {"current", "superseded"} ELSE {"current"}}

Order(kind) == IF kind = "claims" THEN ClaimOrder ELSE Ranking

\* The rows found, in order: a recursive function in the place of SelectSeq, which
\* has no definition for the proofs to use.
Listed(order, found) ==
  LET rows[n \in 0..Len(order)] ==
        IF n = 0 THEN <<>>
        ELSE IF order[n] \in found THEN Append(rows[n - 1], order[n]) ELSE rows[n - 1]
  IN rows[Len(order)]

RowsOf(kind, filter, past, coded) ==
  Listed(Order(kind), ClaimRows(filter, past) \cup (IF coded THEN Codes ELSE {}))

Rows(kind, filter, token) ==
  RowsOf(kind, filter, Past(token.frontier), Coded(kind, filter, token))

\* Mutation: the cursor is bound to the query alone
QueryIdentity(kind, filter, token) == IF kind = "claims" THEN None ELSE <<filter>>

\* A cursor of a claim search is a bare offset; one of a knowledge search is bound
\* to the snapshot and the query.
Identity(kind, filter, token) == IF kind = "claims" THEN None ELSE <<filter, token>>

Cursors == [identity : {None} \cup (Filters \X Tokens), offset : Nat]

ASSUME CursorAssumption == None \notin Cursors

PageFrom(rows, offset) ==
  SubSeq(rows, offset + 1, IF offset + PageSize < Len(rows) THEN offset + PageSize ELSE Len(rows))

CursorAfter(kind, filter, offset, rows) ==
  IF offset + Len(PageFrom(rows, offset)) < Len(rows)
  THEN [identity |-> Identity(kind, filter, call), offset |-> offset + PageSize]
  ELSE None

SaidOn(page) == {Says(c, Past(call.frontier), None) : c \in ToSet(page) \cap Claims}

NewSearch(kind, filter) ==
  LET rows == Rows(kind, filter, call)
      page == PageFrom(rows, 0)
  IN /\ call = held /\ call # None /\ search = None
     /\ search' = [kind |-> kind, filter |-> filter, rows |-> page,
                   coded |-> {Coded(kind, filter, call)}, pinned |-> TRUE,
                   cursor |-> CursorAfter(kind, filter, 0, rows)]
     /\ Say(SaidOn(page))
     /\ call' = None /\ reply' = "ok"
     /\ UNCHANGED <<store, held, origin, since>>

NextPage ==
  LET kind == search.kind
      filter == search.filter
      rows == Rows(kind, filter, call)
      page == PageFrom(rows, search.cursor.offset)
  IN /\ call # None /\ search # None /\ search.cursor # None
     /\ search.cursor.identity = Identity(kind, filter, call)
     /\ search' = [search EXCEPT
          !.rows = @ \o page, !.coded = @ \cup {Coded(kind, filter, call)},
          !.pinned = @ /\ call = held,
          !.cursor = CursorAfter(kind, filter, search.cursor.offset, rows)]
     /\ Say(SaidOn(page))
     /\ call' = None /\ reply' = "ok"
     /\ UNCHANGED <<store, held, origin, since>>

CursorRefused ==
  /\ call # None /\ search # None /\ search.cursor # None
  /\ search.cursor.identity # Identity(search.kind, search.filter, call)
  /\ call' = None /\ reply' = "cursor refused"
  /\ UNCHANGED <<store, held, search, said, origin, since>>

-----------------------------------------------------------------------------
(* The rest of the world *)

Recorded(c) == ViewOf(journal)[c] # "absent"

Legal(event) ==
  /\ ~Happened(event, journal)
  /\ event[1] \in {"superseded", "supports", "contradicts"} => Recorded(event[2])
  /\ event[1] = "index" => Happened(<<"source", event[2]>>, journal)

\* The anchors' blind spot: the held token's event is back at its position, after
\* others than when the token was minted.
Recurs(event) ==
  Frontier + 1 = held.frontier /\ event = held.anchor /\ Append(journal, event) # origin

\* An index is on disk before it is recorded.
Append_(event) ==
  /\ Frontier < MaxJournal /\ Legal(event)
  /\ journal' = Append(journal, event)
  /\ artifact' = IF event[1] = "index" THEN [artifact EXCEPT ![event[2]] = TRUE] ELSE artifact
  /\ since' = IF held = None THEN since
              ELSE IF Recurs(event) THEN "recurred"
              ELSE IF since = "same" THEN "grown" ELSE since
  /\ UNCHANGED <<replaced, agent>>

LoseArtifact(s) ==
  /\ artifact[s]
  /\ artifact' = [artifact EXCEPT ![s] = FALSE]
  /\ UNCHANGED <<journal, replaced, agent, since>>

\* `texo code index` builds a recorded index again whose file is gone.
Rebuild(s) ==
  /\ Happened(<<"index", s>>, journal) /\ ~artifact[s]
  /\ artifact' = [artifact EXCEPT ![s] = TRUE]
  /\ UNCHANGED <<journal, replaced, agent, since>>

\* While no process holds the journal, an older backup takes its place.
Replace(n) ==
  /\ call = None /\ replaced < MaxReplaced /\ n < Frontier /\ Frontier - n <= MaxCut
  /\ journal' = SubSeq(journal, 1, n)
  /\ replaced' = replaced + 1
  /\ since' = IF held # None /\ since # "recurred" THEN "cut" ELSE since
  /\ UNCHANGED <<artifact, agent>>

Init ==
  /\ journal = FirstEvents
  /\ replaced = 0
  /\ artifact = [s \in Sources |-> <<"index", s>> \in ToSet(FirstEvents)]
  /\ call = None /\ held = None /\ search = None /\ reply = "ok"
  /\ said = {} /\ origin = <<>> /\ since = "same"

Read ==
  \/ \E c \in Claims : Explain(c) \/ Triangulate(c)
  \/ ReadContext
  \/ \E kind \in Kinds, filter \in Filters : NewSearch(kind, filter)
  \/ NextPage
  \/ CursorRefused

Next ==
  \/ Begin \/ Pin \/ Unpinned \/ Forget
  \/ Read
  \/ \E event \in Events : Append_(event)
  \/ \E s \in Sources : LoseArtifact(s) \/ Rebuild(s)
  \/ \E n \in 0..MaxJournal : Replace(n)

Spec == Init /\ [][Next]_vars

-----------------------------------------------------------------------------
(* Properties *)

Words ==
  [claim : Claims, status : {"absent", "current", "superseded"},
   answer : {None, "stale", "contradicted", "supported", "unverified"}]

TypeOK ==
  /\ journal \in Seq(Events) /\ replaced \in 0..MaxReplaced
  /\ artifact \in [Sources -> BOOLEAN]
  /\ call \in Tokens \cup {None} /\ held \in Tokens \cup {None}
  /\ search # None =>
       /\ search.kind \in Kinds /\ search.filter \in Filters
       /\ search.rows \in Seq(Claims \cup Codes)
       /\ search.coded \subseteq BOOLEAN /\ search.pinned \in BOOLEAN
  /\ reply \in {"ok", "missing", "cursor refused", "refused"}
  /\ said \subseteq Words /\ origin \in Seq(Events)
  /\ since \in {"same", "grown", "cut", "recurred"}

\* All reads at one token say of a claim what there was to say when the token was
\* minted, however the journal grew or was replaced since, unless it was replaced and
\* the token's event recurred: its status, and, while it is current, its answer
\* (assemble_snapshot_view, answer_state_for_claim, answer_state_for_rows).
ReadsAgree ==
  since # "recurred" =>
    \A now \in said :
      /\ now.status = ViewOf(origin)[now.claim]
      /\ now.status = "current" /\ now.answer # None =>
           now.answer = ExplainedAs(now.claim, origin)

\* A token is refused only after the journal was replaced, and a cursor with another
\* token only after it changed: growth alone takes no snapshot away
\* (latest_source_snapshot and anchor_at_frontier look no further than the frontier).
RefusalsAreDue ==
  /\ reply = "refused" => since \in {"cut", "recurred"}
  /\ reply = "cursor refused" => since # "same"

\* The pages of a finished search add up to what it would have given on one page of
\* the snapshot it began in, if they agree on whether there was code to search and
\* its event did not recur: a knowledge search whatever tokens the agent passed, a claim
\* search if it passed the first one (search_knowledge_from_view, claims_search).
PagesAddUp ==
  search # None /\ search.cursor = None /\ (search.kind = "knowledge" \/ search.pinned)
    /\ since # "recurred" =>
    \A coded \in BOOLEAN :
      search.coded = {coded} =>
        search.rows = RowsOf(search.kind, search.filter, origin, coded)

\* What an agent may rely on when it reads in several calls.
ReadsAreSound == TypeOK /\ ReadsAgree /\ RefusalsAreDue /\ PagesAddUp
================================================================================
