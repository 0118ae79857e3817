------------------------------ MODULE Borrowers ------------------------------
(***************************************************************************)
(* The borrowers of a company, and the changes that a collector proposes   *)
(* and a manager approves or rejects (borrowers.ts, change-requests.ts and *)
(* their repositories).  Every handler step below is one transaction: the  *)
(* review of a request is three, and reviews may overlap or be cut.        *)
(*                                                                         *)
(* A borrower is known by a national identifier, which people type with    *)
(* any number of spaces: a spelling is an identifier and whether the form  *)
(* in which it is stored was typed.  A borrower is never deleted.          *)
(***************************************************************************)
EXTENDS Naturals, FiniteSets

CONSTANTS
  Borrowers, Requests,
  Reviewers,     \* requests of managers in flight
  Ids,           \* national identifiers
  Phones,
  Null,          \* no value, no row
  MaxUpdates     \* bound of the direct updates

VARIABLES
  borrower,      \* borrower[b]: its row
  request,       \* request[r]: the row of the proposal
  review,        \* review[v]: what v goes on with
  updates,
  applied,       \* history: the proposals that were written to their borrower
  raced,         \* history: the proposals reviewed twice at once, or cut midway
  last           \* history: last[b][f], the value last written for the field

recordVars == <<borrower, request, review, updates, applied, raced, last>>

Fields == {"nationalId", "phone", "limit"}
Spellings == [id : Ids, plain : BOOLEAN]
Limits == {0, 1}

\* What a patch changes is its domain; a proposal never has the limit.
Changes ==
  {[nationalId |-> s] : s \in Spellings} \cup {[phone |-> p] : p \in Phones}
    \cup {[nationalId |-> s, phone |-> p] : s \in Spellings, p \in Phones}
Patches == Changes \cup {[limit |-> l] : l \in Limits}

\* normalizeNationalId.
Normalized(spelling) == [spelling EXCEPT !.plain = TRUE]
NormalizedIn(patch) ==
  IF "nationalId" \in DOMAIN patch
  THEN [patch EXCEPT !.nationalId = Normalized(@)] ELSE patch

\* The fields that do not come are cleared.
WholeRow(row, patch) ==
  [f \in Fields |-> IF f \in DOMAIN patch THEN patch[f] ELSE Null]

\* presentColumns: only the fields that come are written.
PresentColumns(row, patch) ==
  [f \in Fields |-> IF f \in DOMAIN patch THEN patch[f] ELSE row[f]]

\* The index borrower_tenant_national_id_idx compares what is stored.
Unique(b, spelling) ==
  \A c \in Borrowers \ {b} : borrower[c] # Null => borrower[c].nationalId # spelling

Accepted(b, patch) == "nationalId" \in DOMAIN patch => Unique(b, patch.nationalId)

Resting == [at |-> "idle"]
-----------------------------------------------------------------------------
BorrowersInit ==
  /\ borrower = [b \in Borrowers |-> Null]
  /\ request = [r \in Requests |-> Null]
  /\ review = [v \in Reviewers |-> Resting]
  /\ updates = 0 /\ applied = {} /\ raced = {}
  /\ last = [b \in Borrowers |-> [f \in Fields |-> Null]]

Write(b, row, patch) ==
  /\ borrower' = [borrower EXCEPT ![b] = row]
  /\ last' = [last EXCEPT ![b] =
                [f \in Fields |-> IF f \in DOMAIN patch THEN patch[f] ELSE @[f]]]

\* CreateBorrowerHandler: the identifier is stored in one form, and the limit is the one
\* typed (0 is none) or, if there is none, that of the company.
Create(b) ==
  \E s \in Spellings, p \in Phones, l \in Limits :
    LET row == [nationalId |-> Normalized(s), phone |-> p, limit |-> l]
    IN /\ borrower[b] = Null
       /\ Unique(b, row.nationalId)
       /\ Write(b, row, row)
       /\ UNCHANGED <<request, review, updates, applied, raced>>

\* UpdateBorrowerHandler, of a manager.
Update(b) ==
  \E typed \in Patches :
    LET patch == NormalizedIn(typed)
    IN /\ borrower[b] # Null /\ updates < MaxUpdates
       /\ Accepted(b, patch)
       /\ Write(b, PresentColumns(borrower[b], patch), patch)
       /\ updates' = updates + 1
       /\ UNCHANGED <<request, review, applied, raced>>

\* RequestBorrowerChangeHandler: the changes are stored as they were typed.
Propose(r) ==
  \E b \in Borrowers, c \in Changes :
    /\ request[r] = Null /\ borrower[b] # Null
    /\ request' = [request EXCEPT ![r] =
                     [borrower |-> b, changes |-> c, status |-> "PENDING"]]
    /\ UNCHANGED <<borrower, review, updates, applied, raced, last>>

\* It is not looked at.
MayReviewAlways(r) == request[r] # Null

\* decideChangeRequest: only what is pending is reviewed.
MayReview(r) == request[r] # Null /\ request[r].status = "PENDING"

\* ReviewBorrowerChangeHandler: what it read of the request decides what it does.
Review(v, r) ==
  \E approve \in BOOLEAN :
    /\ review[v].at = "idle" /\ MayReview(r)
    /\ review' = [review EXCEPT ![v] =
                    [at |-> IF approve THEN "apply" ELSE "mark", request |-> r,
                     borrower |-> request[r].borrower, changes |-> request[r].changes,
                     status |-> IF approve THEN "APPROVED" ELSE "REJECTED"]]
    /\ raced' = IF \E w \in Reviewers : review[w].at # "idle" /\ review[w].request = r
                THEN raced \cup {r} ELSE raced
    /\ UNCHANGED <<borrower, request, updates, applied, last>>

\* The changes are written as they were stored; a taken identifier ends the review.
Apply(v) ==
  LET b == review[v].borrower IN
  /\ review[v].at = "apply"
  /\ IF Accepted(b, review[v].changes)
     THEN /\ Write(b, PresentColumns(borrower[b], review[v].changes), review[v].changes)
          /\ applied' = applied \cup {review[v].request}
          /\ review' = [review EXCEPT ![v].at = "mark"]
     ELSE /\ review' = [review EXCEPT ![v] = Resting]
          /\ UNCHANGED <<borrower, applied, last>>
  /\ UNCHANGED <<request, updates, raced>>

\* The request is marked before its changes are written.
MarkFirst(v) ==
  /\ review[v].at \in {"apply", "mark"}
  /\ request' = [request EXCEPT ![review[v].request].status = review[v].status]
  /\ review' = [review EXCEPT ![v] = Resting]
  /\ UNCHANGED <<borrower, updates, applied, raced, last>>

\* updateReview: whatever the status is now.
Mark(v) ==
  /\ review[v].at = "mark"
  /\ request' = [request EXCEPT ![review[v].request].status = review[v].status]
  /\ review' = [review EXCEPT ![v] = Resting]
  /\ UNCHANGED <<borrower, updates, applied, raced, last>>

\* The server stops between two transactions of a review.
Cut(v) ==
  /\ review[v].at # "idle"
  /\ raced' = raced \cup {review[v].request}
  /\ review' = [review EXCEPT ![v] = Resting]
  /\ UNCHANGED <<borrower, request, updates, applied, last>>

BorrowersNext ==
  \/ \E b \in Borrowers : Create(b) \/ Update(b)
  \/ \E r \in Requests : Propose(r)
  \/ \E v \in Reviewers :
       \/ Apply(v) \/ Mark(v) \/ Cut(v)
       \/ \E r \in Requests : Review(v, r)

BorrowersSpec == BorrowersInit /\ [][BorrowersNext]_recordVars
-----------------------------------------------------------------------------
\* Whoever is told that a change was approved finds it made; a change that was rejected,
\* and one still to be decided, was never made, unless its review was doubled or cut.
DecisionsHold ==
  \A r \in Requests : request[r] # Null =>
    /\ request[r].status = "APPROVED" => r \in applied
    /\ r \notin raced /\ r \in applied =>
         \/ request[r].status = "APPROVED"
         \/ \E v \in Reviewers : review[v].at = "mark" /\ review[v].request = r

\* Updates and approvals of different fields never undo one another
\* (borrowers.repository.ts lines 95-96).
NoFieldIsLost ==
  \A b \in Borrowers : borrower[b] # Null =>
    \A f \in Fields : borrower[b][f] = last[b][f]

\* Two borrowers with one identifier come only from a proposal, whose spelling is stored
\* as it was typed (borrower.ts lines 25-29).
OneBorrowerPerId ==
  \A b, c \in Borrowers :
    b # c /\ borrower[b] # Null /\ borrower[c] # Null =>
      /\ borrower[b].nationalId # borrower[c].nationalId
      /\ borrower[b].nationalId.id = borrower[c].nationalId.id =>
           \E r \in applied : request[r].borrower \in {b, c}

-----------------------------------------------------------------------------
(* Why they hold: what a review goes on with is the request it read, and   *)
(* only a review of two at once, or one cut, may contradict another.       *)

Rows == [nationalId : Spellings, phone : Phones, limit : Limits]
Proposals ==
  [borrower : Borrowers, changes : Changes, status : {"PENDING", "APPROVED", "REJECTED"}]
Reviews ==
  [at : {"apply", "mark"}, request : Requests, borrower : Borrowers, changes : Changes,
   status : {"APPROVED", "REJECTED"}]

\* Neither a proposal nor a row is mistaken for its absence.
RecordTerms == Null \notin Proposals /\ Null \notin Rows

RecordTypeOK ==
  /\ borrower \in [Borrowers -> Rows \cup {Null}]
  /\ request \in [Requests -> Proposals \cup {Null}]
  /\ review \in [Reviewers -> Reviews \cup {Resting}]
  /\ DOMAIN last = Borrowers

UnderReview(v, r) == review[v].at # "idle" /\ review[v].request = r

ReviewsKnow ==
  \A v \in Reviewers, r \in Requests : UnderReview(v, r) =>
    /\ request[r] # Null /\ request[r].borrower = review[v].borrower
    /\ review[v].at = "apply" => review[v].status = "APPROVED"
    /\ review[v].at = "mark" /\ review[v].status = "APPROVED" => r \in applied
    /\ r \notin raced =>
         /\ \A w \in Reviewers \ {v} : ~ UnderReview(w, r)
         /\ review[v].status = "REJECTED" => r \notin applied

AppliedExist == \A r \in applied : r \in Requests /\ request[r] # Null

\* A spelling is stored as it was typed only by a proposal.
PlainUnlessApplied ==
  \A b \in Borrowers : borrower[b] # Null /\ ~ borrower[b].nationalId.plain =>
    \E r \in applied : request[r].borrower = b

\* Whoever a proposal is about is still there.
BorrowersStay ==
  \A r \in Requests : request[r] # Null => borrower[request[r].borrower] # Null

RecordInv ==
  /\ RecordTypeOK /\ ReviewsKnow /\ AppliedExist /\ PlainUnlessApplied
  /\ DecisionsHold /\ NoFieldIsLost /\ OneBorrowerPerId
-----------------------------------------------------------------------------
\* What was decided is what was done, and the invariant it rests on.
BorrowersSafe == DecisionsHold /\ NoFieldIsLost /\ OneBorrowerPerId /\ RecordInv /\ BorrowersStay
=============================================================================
