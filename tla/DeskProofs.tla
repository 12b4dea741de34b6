------------------------------ MODULE DeskProofs ------------------------------
(***************************************************************************)
(* What people do beside the review of a tariff: the registration of       *)
(* uploads, the members of an organisation, the petition fill, the ARR     *)
(* reading track and the library, each for any constants of its own, and   *)
(* the service MCDesk makes of them.                                       *)
(***************************************************************************)
EXTENDS MCDesk, FiniteSetTheorems, TLAPS

-----------------------------------------------------------------------------
(* Registration under Idempotency-Keys, for any requests and any number    *)
(* of sendings. RegisteredOnce is not inductive: that a request writes     *)
(* once rests on its record, which is written with it and clashes with     *)
(* the next commit (WrittenIsRecorded); that a key answers one request     *)
(* rests on one record per key (OneRecordPerKey), which says what every    *)
(* answer given was for (AnsweredIsRecorded).                              *)

Flights == {Landed} \cup [at : {"read"}, dedup : BOOLEAN]

RegistrationTyped ==
    /\ RegistrationTypeOK
    /\ flight \in [Requests -> Flights]
    /\ answers = [r \in Requests |-> answers[r]]

\* A sending that has read and not committed is one that has not written.
SendsCount == \A r \in Requests : written[r] + (IF flight[r] = Landed THEN 0 ELSE 1) <= sends[r]

OneRecordPerKey == \A x, y \in records : x.key = y.key => x = y

WrittenIsRecorded == \A r \in Requests : r.key # NoKey /\ written[r] > 0 => Recorded(r) # {}

AnsweredIsRecorded ==
    \A r \in Requests : \A a \in answers[r] :
        r.key # NoKey /\ a.is = "source" => \E rec \in Recorded(r) : rec.finger = r.finger

RegistrationInv ==
    /\ RegistrationTyped /\ SendsCount
    /\ OneSourcePerDocument /\ SentAgainWritesOnce
    /\ OneRecordPerKey /\ WrittenIsRecorded /\ AnsweredIsRecorded

-----------------------------------------------------------------------------
\* Where nothing is written, what is counted and recorded stays true.
LEMMA QuietRegistration ==
  ASSUME RegistrationInv, RegistrationTyped', SendsCount', AnsweredIsRecorded',
         UNCHANGED <<copies, inventory, records, written>>
  PROVE  RegistrationInv'
  BY DEF RegistrationInv, OneSourcePerDocument, SentAgainWritesOnce, OneRecordPerKey, WrittenIsRecorded, Recorded

LEMMA InitEstablishesRegistration == RegistrationInit => RegistrationInv
<1> SUFFICES ASSUME RegistrationInit PROVE RegistrationInv
    OBVIOUS
<1>1. RegistrationTyped
    BY RegistrationAssumption DEF RegistrationInit, RegistrationTyped, RegistrationTypeOK, Flights
<1>2. QED
    BY <1>1 DEF RegistrationInit, RegistrationInv, SendsCount, OneSourcePerDocument, SentAgainWritesOnce,
                OneRecordPerKey, WrittenIsRecorded, AnsweredIsRecorded

LEMMA ReceiveKeeps ==
  ASSUME RegistrationInv, NEW r \in Requests, Receive(r) PROVE RegistrationInv'
<1>1. RegistrationTyped'
  <2>1. r.bytes \in Uploaded
      BY DEF Uploaded
  <2>2. flight' \in [Requests -> Flights]
      BY <2>1 DEF RegistrationInv, RegistrationTyped, RegistrationTypeOK, Receive, Flights
  <2>3. sends' \in [Requests -> 0 .. MaxSends]
      BY RegistrationAssumption DEF RegistrationInv, RegistrationTyped, RegistrationTypeOK, Receive
  <2>4. QED
      BY <2>2, <2>3 DEF RegistrationInv, RegistrationTyped, RegistrationTypeOK, Receive
<1>2. SendsCount'
    BY RegistrationAssumption DEF RegistrationInv, RegistrationTyped, RegistrationTypeOK, SendsCount, Receive, Landed
<1>3. AnsweredIsRecorded'
    BY DEF RegistrationInv, AnsweredIsRecorded, Receive, Recorded
<1>4. QED
    BY <1>1, <1>2, <1>3, QuietRegistration DEF Receive

LEMMA ReplayKeeps ==
  ASSUME RegistrationInv, NEW r \in Requests, Replay(r) PROVE RegistrationInv'
<1>1. RegistrationTyped'
  <2>1. sends' \in [Requests -> 0 .. MaxSends]
      BY RegistrationAssumption DEF RegistrationInv, RegistrationTyped, RegistrationTypeOK, Replay
  <2>2. answers' = [q \in Requests |-> answers'[q]]
      BY DEF RegistrationInv, RegistrationTyped, Replay, Answer
  <2>3. QED
      BY <2>1, <2>2 DEF RegistrationInv, RegistrationTyped, RegistrationTypeOK, Replay
<1>2. SendsCount'
    BY RegistrationAssumption DEF RegistrationInv, RegistrationTyped, RegistrationTypeOK, SendsCount, Replay, Landed
<1>3. AnsweredIsRecorded'
  <2> SUFFICES ASSUME NEW q \in Requests, NEW a \in answers'[q], q.key # NoKey, a.is = "source"
               PROVE  \E rec \in Recorded(q) : rec.finger = q.finger
      BY DEF AnsweredIsRecorded, Recorded, Replay
  <2>1. CASE a \in answers[q]
      BY <2>1 DEF RegistrationInv, AnsweredIsRecorded
  <2>2. CASE a \notin answers[q]
    <3>1. PICK rec \in Recorded(r) :
              Answer(r, IF Matches(rec, r) THEN [is |-> "source", bytes |-> rec.bytes, dedup |-> rec.dedup]
                                           ELSE [is |-> "conflict"])
        BY DEF Replay
    <3>2. q = r /\ a = IF Matches(rec, r) THEN [is |-> "source", bytes |-> rec.bytes, dedup |-> rec.dedup]
                                          ELSE [is |-> "conflict"]
        BY <2>2, <3>1 DEF Answer, RegistrationInv, RegistrationTyped
    <3>3. Matches(rec, r)
        BY <3>2
    <3>4. QED
        BY <3>1, <3>2, <3>3 DEF Matches
  <2>3. QED
      BY <2>1, <2>2
<1>4. QED
    BY <1>1, <1>2, <1>3, QuietRegistration DEF Replay

LEMMA DropKeepsRegistration ==
  ASSUME RegistrationInv, NEW r \in Requests,
         flight' = [flight EXCEPT ![r] = Landed],
         UNCHANGED <<copies, inventory, records, sends, written, answers>>
  PROVE  RegistrationInv'
<1>1. RegistrationTyped'
  <2>1. flight' \in [Requests -> Flights]
      BY DEF RegistrationInv, RegistrationTyped, Flights
  <2>2. QED
      BY <2>1 DEF RegistrationInv, RegistrationTyped, RegistrationTypeOK
<1>2. SendsCount'
  <2> SUFFICES ASSUME NEW q \in Requests
               PROVE  written[q] + (IF flight'[q] = Landed THEN 0 ELSE 1) <= sends[q]
      BY DEF SendsCount
  <2>1. written[q] \in Nat /\ sends[q] \in Nat
      BY RegistrationAssumption DEF RegistrationInv, RegistrationTyped, RegistrationTypeOK
  <2>2. written[q] + (IF flight[q] = Landed THEN 0 ELSE 1) <= sends[q]
      BY DEF RegistrationInv, SendsCount
  <2>3. flight'[q] = flight[q] \/ flight'[q] = Landed
      BY DEF RegistrationInv, RegistrationTyped
  <2>4. QED
      BY <2>1, <2>2, <2>3
<1>3. AnsweredIsRecorded'
    BY DEF RegistrationInv, AnsweredIsRecorded, Recorded
<1>4. QED
    BY <1>1, <1>2, <1>3, QuietRegistration

LEMMA CommitKeepsRegistration ==
  ASSUME RegistrationInv, NEW r \in Requests, CommitRegistration(r) PROVE RegistrationInv'
<1> DEFINE new == IF flight[r].dedup THEN 0 ELSE 1
           mine == [key |-> r.key, finger |-> r.finger, bytes |-> r.bytes, dedup |-> flight[r].dedup]
<1>1. r.bytes \in Uploaded
    BY DEF Uploaded
<1>2. flight[r].dedup \in BOOLEAN /\ flight[r] # Landed
    BY DEF RegistrationInv, RegistrationTyped, Flights, CommitRegistration, Landed
<1>3. Recorded(r) = {} /\ (flight[r].dedup \/ ~(copies[r.bytes] > 0))
    BY DEF CommitRegistration, Clashes
<1>4. r.key # NoKey => records' = records \cup {mine}
    BY DEF CommitRegistration, Remembered
<1>5. r.key = NoKey => records' = records
    BY DEF CommitRegistration, Remembered
<1>6. copies' = [copies EXCEPT ![r.bytes] = @ + new] /\ inventory' = [inventory EXCEPT ![r.bytes] = @ + new]
    BY DEF CommitRegistration
<1>7. written' = [written EXCEPT ![r] = @ + 1] /\ flight' = [flight EXCEPT ![r] = Landed] /\ sends' = sends
    BY DEF CommitRegistration
<1>8. answers' = answers
          \/ answers' = [answers EXCEPT ![r] = @ \cup {[is |-> "source", bytes |-> r.bytes, dedup |-> flight[r].dedup]}]
    BY DEF CommitRegistration, Answer
<1>9. new \in {0, 1}
    BY <1>2
<1> HIDE DEF new
<1>10. SendsCount'
  <2> SUFFICES ASSUME NEW q \in Requests
               PROVE  written'[q] + (IF flight'[q] = Landed THEN 0 ELSE 1) <= sends[q]
      BY <1>7 DEF SendsCount
  <2>1. written[q] \in Nat /\ sends[q] \in Nat /\ written \in [Requests -> 0 .. MaxSends]
      BY RegistrationAssumption DEF RegistrationInv, RegistrationTyped, RegistrationTypeOK
  <2>2. written[q] + (IF flight[q] = Landed THEN 0 ELSE 1) <= sends[q]
      BY DEF RegistrationInv, SendsCount
  <2>3. CASE q = r
    <3>1. written'[q] = written[q] + 1 /\ flight'[q] = Landed
        BY <1>7, <2>1, <2>3 DEF RegistrationInv, RegistrationTyped
    <3>2. QED
        BY <1>2, <2>1, <2>2, <2>3, <3>1
  <2>4. CASE q # r
    <3>1. written'[q] = written[q] /\ flight'[q] = flight[q]
        BY <1>7, <2>1, <2>4 DEF RegistrationInv, RegistrationTyped
    <3>2. QED
        BY <2>2, <3>1
  <2>5. QED
      BY <2>3, <2>4
<1>11. RegistrationTyped'
  <2>1. copies' \in [Uploaded -> Nat] /\ inventory' \in [Uploaded -> Nat]
      BY <1>1, <1>6, <1>9 DEF RegistrationInv, RegistrationTyped, RegistrationTypeOK
  <2>2. \A rec \in records' : rec.key # NoKey /\ rec.bytes \in Uploaded /\ rec.dedup \in BOOLEAN
    <3>1. mine.key = r.key /\ mine.bytes = r.bytes /\ mine.dedup = flight[r].dedup
        OBVIOUS
    <3>2. \A rec \in records : rec.key # NoKey /\ rec.bytes \in Uploaded /\ rec.dedup \in BOOLEAN
        BY DEF RegistrationInv, RegistrationTyped, RegistrationTypeOK
    <3> HIDE DEF mine
    <3>3. QED
        BY <1>1, <1>2, <1>4, <1>5, <3>1, <3>2
  <2>3. written' \in [Requests -> 0 .. MaxSends]
    <3>1. written \in [Requests -> 0 .. MaxSends] /\ sends \in [Requests -> 0 .. MaxSends]
        BY DEF RegistrationInv, RegistrationTyped, RegistrationTypeOK
    <3>2. written[r] + 1 <= sends[r]
        BY <1>2 DEF RegistrationInv, SendsCount
    <3>3. QED
        BY <1>7, <3>1, <3>2, RegistrationAssumption
  <2>4. flight' \in [Requests -> Flights]
      BY <1>7 DEF RegistrationInv, RegistrationTyped, Flights
  <2>5. answers' = [q \in Requests |-> answers'[q]]
      BY <1>8 DEF RegistrationInv, RegistrationTyped
  <2>6. QED
      BY <1>7, <2>1, <2>2, <2>3, <2>4, <2>5 DEF RegistrationInv, RegistrationTyped, RegistrationTypeOK
<1>12. OneSourcePerDocument'
  <2> SUFFICES ASSUME NEW b \in Uploaded PROVE copies'[b] <= 1 /\ inventory'[b] = copies'[b]
      BY DEF OneSourcePerDocument
  <2>1. copies \in [Uploaded -> Nat] /\ inventory \in [Uploaded -> Nat]
        /\ copies[b] <= 1 /\ inventory[b] = copies[b]
      BY DEF RegistrationInv, RegistrationTyped, RegistrationTypeOK, OneSourcePerDocument
  <2>2. CASE b # r.bytes
      BY <1>6, <2>1, <2>2
  <2>3. CASE b = r.bytes
    <3>1. copies'[b] = copies[b] + new /\ inventory'[b] = inventory[b] + new
        BY <1>6, <2>1, <2>3
    <3>2. new = 0 \/ copies[b] = 0
        BY <1>2, <1>3, <2>1, <2>3 DEF new
    <3>3. QED
        BY <1>9, <2>1, <3>1, <3>2
  <2>4. QED
      BY <2>2, <2>3
<1>13. SentAgainWritesOnce' /\ WrittenIsRecorded'
  <2> SUFFICES ASSUME NEW q \in Requests, q.key # NoKey
               PROVE  written'[q] <= 1 /\ (written'[q] > 0 => \E rec \in records' : rec.key = q.key)
      BY DEF SentAgainWritesOnce, WrittenIsRecorded, Recorded
  <2>1. written \in [Requests -> Nat] /\ written[q] <= 1 /\ (written[q] > 0 => Recorded(q) # {})
      BY DEF RegistrationInv, RegistrationTyped, RegistrationTypeOK, SentAgainWritesOnce, WrittenIsRecorded
  <2>2. CASE q = r
    <3>1. written[q] = 0 /\ written'[q] = 1
        BY <1>3, <1>7, <2>1, <2>2
    <3>2. mine \in records' /\ mine.key = q.key
        BY <1>4, <2>2
    <3> HIDE DEF mine
    <3>3. QED
        BY <3>1, <3>2
  <2>3. CASE q # r
    <3>1. written'[q] = written[q] /\ records \subseteq records'
        BY <1>4, <1>5, <1>7, <2>1, <2>3
    <3>2. QED
        BY <2>1, <3>1 DEF Recorded
  <2>4. QED
      BY <2>2, <2>3
<1>14. OneRecordPerKey'
  <2>1. \A x \in records : r.key # NoKey => x.key # mine.key
      BY <1>3 DEF Recorded
  <2>2. QED
      BY <1>4, <1>5, <2>1 DEF RegistrationInv, OneRecordPerKey
<1>15. AnsweredIsRecorded'
  <2> SUFFICES ASSUME NEW q \in Requests, NEW a \in answers'[q], q.key # NoKey, a.is = "source"
               PROVE  \E rec \in records' : rec.key = q.key /\ rec.finger = q.finger
      BY DEF AnsweredIsRecorded, Recorded
  <2>1. CASE a \in answers[q]
      BY <1>4, <1>5, <2>1 DEF RegistrationInv, AnsweredIsRecorded, Recorded
  <2>2. CASE a \notin answers[q]
    <3>1. q = r
        BY <1>8, <2>2 DEF RegistrationInv, RegistrationTyped
    <3>2. mine \in records' /\ mine.key = q.key /\ mine.finger = q.finger
        BY <1>4, <3>1
    <3>3. QED
        BY <3>2
  <2>3. QED
      BY <2>1, <2>2
<1>16. QED
    BY <1>10, <1>11, <1>12, <1>13, <1>14, <1>15 DEF RegistrationInv

LEMMA StepKeepsRegistration == RegistrationInv /\ [RegistrationNext]_registrationVars => RegistrationInv'
<1> SUFFICES ASSUME RegistrationInv, [RegistrationNext]_registrationVars PROVE RegistrationInv'
    OBVIOUS
<1>1. CASE UNCHANGED registrationVars
    BY <1>1 DEF registrationVars, RegistrationInv, RegistrationTyped, RegistrationTypeOK, SendsCount, OneSourcePerDocument,
                SentAgainWritesOnce, OneRecordPerKey, WrittenIsRecorded, AnsweredIsRecorded, Recorded
<1>2. CASE RegistrationNext
  <2>1. PICK r \in Requests :
            Receive(r) \/ Replay(r) \/ CommitRegistration(r) \/ RegistrationClashes(r) \/ RequestLost(r)
      BY <1>2 DEF RegistrationNext
  <2>2. CASE Receive(r)
      BY <2>2, ReceiveKeeps
  <2>3. CASE Replay(r)
      BY <2>3, ReplayKeeps
  <2>4. CASE CommitRegistration(r)
      BY <2>4, CommitKeepsRegistration
  <2>5. CASE RegistrationClashes(r)
      BY <2>5, DropKeepsRegistration DEF RegistrationClashes
  <2>6. CASE RequestLost(r)
      BY <2>6, DropKeepsRegistration DEF RequestLost
  <2>7. QED
      BY <2>1, <2>2, <2>3, <2>4, <2>5, <2>6
<1>3. QED
    BY <1>1, <1>2

\* The invariant says what RegisteredOnce does: two requests that share a key and are both
\* answered with a source are answered from one record, so they are the same request.
LEMMA InvariantRegistersOnce == RegistrationInv => RegisteredOnce
<1> SUFFICES ASSUME RegistrationInv PROVE KeyAnswersOneRequest
    BY DEF RegistrationInv, RegisteredOnce
<1> SUFFICES ASSUME NEW r \in Requests, NEW q \in Requests, r.key = q.key, r.key # NoKey,
                    NEW a \in answers[r], NEW c \in answers[q], a.is = "source", c.is = "source"
             PROVE  r.finger = q.finger
    BY DEF KeyAnswersOneRequest
<1>1. PICK x \in Recorded(r) : x.finger = r.finger
    BY DEF RegistrationInv, AnsweredIsRecorded
<1>2. PICK y \in Recorded(q) : y.finger = q.finger
    BY DEF RegistrationInv, AnsweredIsRecorded
<1>3. x = y
    BY <1>1, <1>2 DEF RegistrationInv, OneRecordPerKey, Recorded
<1>4. QED
    BY <1>1, <1>2, <1>3

-----------------------------------------------------------------------------
\* Rows, records and answers of the registration are well typed, for any requests (upload_source).
THEOREM RegistrationTypeCorrect == RegistrationSpec => []RegistrationTypeOK
<1>1. RegistrationInv => RegistrationTypeOK
    BY DEF RegistrationInv, RegistrationTyped
<1>2. QED
    BY <1>1, InitEstablishesRegistration, StepKeepsRegistration, PTL DEF RegistrationSpec

\* One source per document, one write per key and one request per key, however many requests
\* overlap, are lost and are sent again (upload_source, ingest_source, register_upload).
THEOREM RegistrationRegistersOnce == RegistrationSpec => []RegisteredOnce
<1>1. QED
    BY InvariantRegistersOnce, InitEstablishesRegistration, StepKeepsRegistration, PTL DEF RegistrationSpec

-----------------------------------------------------------------------------
(* The members of an organisation, for any people and bounds.  What a      *)
(* request read is still so when nothing changed since: it may not take    *)
(* the one owner away (ReadsHold), and its caller may ask it               *)
(* (AuthorityHolds).                                                       *)

Roles == {"none"} \cup DOMAIN OrgRank
Asked == [who : People, was : Roles, to : Roles]

OrgTyped ==
    /\ member \in [People -> Roles]
    /\ request \in [People -> {NotAsking} \cup Asked]
    /\ changed \in [People -> BOOLEAN]

\* What an unchanged request read is what there is.
ReadsHold == \A p \in People :
    request[p] # NotAsking /\ ~changed[p] =>
        request[p].was = member[request[p].who] /\ KeepsAnOwner(request[p].who, request[p].to)

\* So is what its caller may.
AuthorityHolds == \A p \in People :
    request[p] # NotAsking /\ ~changed[p] => IsAdministrator(p) \/ member[p] = "owner"

OrgInv == OrgTyped /\ ReadsHold /\ AuthorityHolds

LEMMA InitEstablishesOrg == OrgInit => OrgInv
<1> SUFFICES ASSUME OrgInit PROVE OrgInv
    OBVIOUS
<1>1. OrgTyped
    BY DEF OrgInit, OrgTyped, Roles, OrgRank
<1>2. ReadsHold
    BY DEF OrgInit, ReadsHold
<1>3. AuthorityHolds
    BY DEF OrgInit, AuthorityHolds
<1>4. QED
    BY <1>1, <1>2, <1>3 DEF OrgInv

LEMMA AskKeeps ==
  ASSUME OrgInv, NEW p \in People, NEW q \in People, NEW to \in {"none"} \cup DOMAIN OrgRank, AskMember(p, q, to)
  PROVE  OrgInv'
<1>1. member' = member /\ Owners' = Owners
    BY DEF AskMember, Owners
<1> DEFINE new == [who |-> q, was |-> member[q], to |-> to]
<1>2. request' = [request EXCEPT ![p] = new] /\ changed' = [changed EXCEPT ![p] = FALSE]
    BY DEF AskMember
<1>3. new \in Asked /\ new.who = q /\ new.was = member[q] /\ new.to = to
    BY DEF OrgInv, OrgTyped, Asked, Roles
<1> HIDE DEF new
<1>4. OrgTyped'
    BY <1>1, <1>2, <1>3 DEF OrgInv, OrgTyped
<1>5. ReadsHold'
  <2> SUFFICES ASSUME NEW o \in People, request'[o] # NotAsking, ~changed'[o]
               PROVE  /\ request'[o].was = member[request'[o].who]
                      /\ KeepsAnOwner(request'[o].who, request'[o].to)
      BY <1>1 DEF ReadsHold, KeepsAnOwner
  <2>1. CASE o = p
      BY <1>2, <1>3, <2>1 DEF AskMember, OrgInv, OrgTyped
  <2>2. CASE o # p
      BY <1>2, <2>2 DEF OrgInv, OrgTyped, ReadsHold
  <2>3. QED
      BY <2>1, <2>2
<1>6. IsAdministrator(p) \/ member[p] = "owner"
  <2>1. member[p] \in Roles
      BY DEF OrgInv, OrgTyped
  <2>2. QED
      BY <2>1 DEF AskMember, Can, IsMember, IsAdministrator, OrgRank, NeedRank, Roles
<1>7. AuthorityHolds'
    BY <1>1, <1>2, <1>6 DEF OrgInv, OrgTyped, AuthorityHolds, IsAdministrator
<1>8. QED
    BY <1>1, <1>4, <1>5, <1>7 DEF OrgInv

\* A request that found what there is leaves an owner.
LEMMA CommitLeavesAnOwner ==
  ASSUME OrgInv, NEW p \in People, CommitMember(p), ~changed[p], Owners # {} PROVE Owners' # {}
<1> DEFINE r == request[p]
<1>1. r \in Asked
    BY DEF CommitMember, OrgInv, OrgTyped
<1>2. r.was = member[r.who] /\ KeepsAnOwner(r.who, r.to)
    BY <1>1 DEF CommitMember, OrgInv, ReadsHold
<1>3. PICK o \in People : member[o] = "owner"
    BY DEF Owners
<1>4. member' = member \/ member' = [member EXCEPT ![r.who] = r.to]
    BY DEF CommitMember
<1>5. member \in [People -> Roles] /\ r.who \in People
    BY <1>1 DEF OrgInv, OrgTyped, Asked
<1>6. CASE member[r.who] = "owner" /\ r.to # "owner"
  <2>1. Owners # {r.who}
      BY <1>2, <1>6, FS_Singleton DEF KeepsAnOwner
  <2>2. PICK q \in People : q # r.who /\ member[q] = "owner"
      BY <1>5, <1>6, <2>1 DEF Owners
  <2>3. member'[q] = "owner"
      BY <1>4, <1>5, <2>2
  <2>4. QED
      BY <2>3 DEF Owners
<1>7. CASE ~(member[r.who] = "owner" /\ r.to # "owner")
  <2>1. member'[o] = "owner"
      BY <1>3, <1>4, <1>5, <1>7
  <2>2. QED
      BY <2>1 DEF Owners
<1>8. QED
    BY <1>6, <1>7

LEMMA CommitKeepsOrg ==
  ASSUME OrgInv, NEW p \in People, CommitMember(p) PROVE OrgInv'
<1> DEFINE r == request[p]
<1>1. r \in Asked
    BY DEF CommitMember, OrgInv, OrgTyped
<1>2. member' = member \/ member' = [member EXCEPT ![r.who] = r.to]
    BY DEF CommitMember
<1>3. changed' = [o \in People |-> changed[o] \/ member' # member]
    BY DEF CommitMember
<1>4. request' = [request EXCEPT ![p] = NotAsking]
    BY DEF CommitMember
<1>5. OrgTyped'
  <2>1. member' \in [People -> Roles]
      BY <1>1, <1>2 DEF OrgInv, OrgTyped, Asked
  <2>2. changed' \in [People -> BOOLEAN]
      BY <1>3 DEF OrgInv, OrgTyped
  <2>3. QED
      BY <1>4, <2>1, <2>2 DEF OrgInv, OrgTyped
<1>6. ReadsHold'
  <2> SUFFICES ASSUME NEW o \in People, request'[o] # NotAsking, ~changed'[o]
               PROVE  (request[o].was = member[request[o].who] /\ KeepsAnOwner(request[o].who, request[o].to))'
      BY DEF ReadsHold
  <2>1. member' = member /\ ~changed[o]
      BY <1>3
  <2>2. request'[o] = request[o]
      BY <1>4 DEF OrgInv, OrgTyped
  <2>3. QED
      BY <2>1, <2>2 DEF OrgInv, ReadsHold, KeepsAnOwner, Owners
<1>7. AuthorityHolds'
  <2> SUFFICES ASSUME NEW o \in People, request'[o] # NotAsking, ~changed'[o]
               PROVE  IsAdministrator(o) \/ member'[o] = "owner"
      BY DEF AuthorityHolds, IsAdministrator
  <2>1. member' = member /\ ~changed[o] /\ request'[o] = request[o]
      BY <1>3, <1>4 DEF OrgInv, OrgTyped
  <2>2. QED
      BY <2>1 DEF OrgInv, AuthorityHolds
<1>8. QED
    BY <1>5, <1>6, <1>7 DEF OrgInv

LEMMA RollBackKeeps ==
  ASSUME OrgInv, NEW p \in People, RollBackMember(p) PROVE OrgInv'
<1>1. OrgTyped'
    BY DEF OrgInv, OrgTyped, RollBackMember
<1>2. ReadsHold'
    BY DEF OrgInv, OrgTyped, ReadsHold, RollBackMember, KeepsAnOwner, Owners
<1>3. AuthorityHolds'
    BY DEF OrgInv, OrgTyped, AuthorityHolds, RollBackMember, IsAdministrator
<1>4. QED
    BY <1>1, <1>2, <1>3 DEF OrgInv

LEMMA StepKeepsOrg == OrgInv /\ [OrgNext]_orgVars => OrgInv'
<1> SUFFICES ASSUME OrgInv, [OrgNext]_orgVars PROVE OrgInv'
    OBVIOUS
<1>1. CASE UNCHANGED orgVars
    BY <1>1 DEF orgVars, OrgInv, OrgTyped, ReadsHold, AuthorityHolds, IsAdministrator, KeepsAnOwner, Owners
<1>2. CASE OrgNext
    BY <1>2, AskKeeps, CommitKeepsOrg, RollBackKeeps DEF OrgNext
<1>3. QED
    BY <1>1, <1>2

-----------------------------------------------------------------------------
\* A person's row changes with the request that says so: asked with the authority to, unless rows
\* changed since, and of a person who was no member only if it found none.
LEMMA ChangeIsOrdered ==
  ASSUME OrgInv, OrgNext, NEW q \in People, member'[q] # member[q]
  PROVE  \E p \in People :
            /\ request'[p] = NotAsking /\ Ordered(p, q, member'[q])
            /\ ~IsMember(q) => request[p].was = "none"
<1>1. PICK p \in People : CommitMember(p)
    BY DEF OrgNext, AskMember, RollBackMember
<1>2. request[p] \in Asked /\ request'[p] = NotAsking
    BY <1>1 DEF CommitMember, OrgInv, OrgTyped
<1>3. q = request[p].who /\ request[p].to = member'[q] /\ request[p].to # request[p].was
    BY <1>1, <1>2 DEF CommitMember, OrgInv, OrgTyped, Asked
<1>4. Ordered(p, q, member'[q])
    BY <1>1, <1>3 DEF Ordered, CommitMember, OrgInv, AuthorityHolds
<1>5. ~IsMember(q) => request[p].was = "none"
    BY <1>1, <1>2, <1>3 DEF CommitMember, Committable, IsMember
<1>6. QED
    BY <1>2, <1>4, <1>5

\* For any number of people and requests, however they overlap: nobody is added, removed or given
\* another role but by a request that says so, asked by an owner or an administrator, and the last
\* owner goes only with a request that read rows changed since (add_member, remove_member).
THEOREM OrganisationsMembershipHolds == OrgSpec => MembershipHolds
<1> DEFINE Step ==
       /\ \A q \in People : member'[q] # member[q] =>
            \E p \in People :
               /\ request'[p] = NotAsking /\ Ordered(p, q, member'[q])
               /\ ~IsMember(q) => request[p].was = "none"
       /\ Owners # {} /\ Owners' = {} => \E p \in People : request'[p] # request[p] /\ changed[p]
<1>1. OrgInv /\ [OrgNext]_orgVars => [Step]_orgVars
  <2> SUFFICES ASSUME OrgInv, OrgNext PROVE Step
      OBVIOUS
  <2>1. ASSUME Owners # {}, Owners' = {} PROVE \E p \in People : request'[p] # request[p] /\ changed[p]
    <3>1. PICK p \in People : CommitMember(p)
        BY <2>1 DEF OrgNext, AskMember, RollBackMember, Owners
    <3>2. changed[p]
        BY <2>1, <3>1, CommitLeavesAnOwner DEF OrgInv, OrgTyped
    <3>3. request'[p] # request[p]
        BY <3>1 DEF CommitMember, OrgInv, OrgTyped
    <3>4. QED
        BY <3>2, <3>3
  <2>2. QED
      BY <2>1, ChangeIsOrdered
<1>2. QED
    BY <1>1, InitEstablishesOrg, StepKeepsOrg, PTL DEF OrgSpec, MembershipHolds

-----------------------------------------------------------------------------
(* The fills of petition workbooks, for any number of fills and crashes.   *)
(* That a filled row has its artefacts rests on one handler at most ever   *)
(* running for a row, though it outlives its lease: a job is claimed once  *)
(* (ClaimedOnce), and what a handler has put is known by where it is       *)
(* (HandlersStored).                                                       *)

\* Before its claim a fill has no handler; the row is settled by the handler of the one claim.
ClaimedOnce == \A f \in Fills :
    /\ handler[f][2] = "idle"
    /\ claims[f] = 0 => handler[f][1] = "idle" /\ row[f] \in {"none", "queued"}
    /\ row[f] \in {"filled", "failed"} => handler[f][1] = "done"
    /\ job[f] = "leased" => claims[f] = 1
    /\ row[f] = "none" => claims[f] = 0

HandlersStored == \A f \in Fills :
    /\ handler[f][1] \in {"put_book", "put_report", "put_all"} => "book" \in stored[f]
    /\ handler[f][1] \in {"put_report", "put_all"} => "report" \in stored[f]
    /\ handler[f][1] = "put_all" \/ row[f] = "filled" => stored[f] = Artefacts

PetitionInv == PetitionTypeOK /\ ClaimedOnce /\ HandlersStored

LEMMA InitEstablishesPetition == PetitionInit => PetitionInv
<1> SUFFICES ASSUME PetitionInit PROVE PetitionInv
    OBVIOUS
<1>1. PetitionTypeOK
  <2>1. handler \in [Fills -> [Claims -> Phases]]
      BY DEF PetitionInit, Phases
  <2>2. stored \in [Fills -> SUBSET Artefacts]
      BY DEF PetitionInit
  <2>3. claims \in [Fills -> 0 .. MaxAttempts] /\ crashes \in 0 .. MaxCrashes
      BY PetitionAssumption DEF PetitionInit, MaxAttempts
  <2>4. QED
      BY <2>1, <2>2, <2>3 DEF PetitionInit, PetitionTypeOK, RowStatuses, JobStatuses
<1>2. ClaimedOnce
    BY DEF PetitionInit, ClaimedOnce, Claims
<1>3. HandlersStored
    BY DEF PetitionInit, HandlersStored, Claims
<1>4. QED
    BY <1>1, <1>2, <1>3 DEF PetitionInv

-----------------------------------------------------------------------------
\* A step of the client, of the queue or of a dying worker writes no row that is settled.
LEMMA QueueStepKeeps ==
  ASSUME PetitionInv, NEW f \in Fills,
         \/ StoreInputs \/ RequestFill(f) \/ CancelQueued(f) \/ Start(f)
         \/ WorkerDies(f) \/ LeaseExpires(f) \/ Stall(f)
  PROVE  PetitionInv'
<1> USE PetitionAssumption DEF PetitionInv, PetitionTypeOK, MaxAttempts, Claims
<1>1. CASE StoreInputs
    BY <1>1 DEF StoreInputs, ClaimedOnce, HandlersStored
<1>2. CASE RequestFill(f)
    BY <1>2 DEF RequestFill, ClaimedOnce, HandlersStored, RowStatuses, JobStatuses
<1>3. CASE CancelQueued(f)
    BY <1>3 DEF CancelQueued, ClaimedOnce, HandlersStored, JobStatuses
<1>4. CASE Start(f)
  <2>1. claims[f] = 0 /\ row[f] # "filled" /\ handler[f][1] = "idle"
      BY <1>4 DEF Start, ClaimedOnce
  <2>2. /\ claims' = [claims EXCEPT ![f] = 1] /\ job' = [job EXCEPT ![f] = "leased"]
        /\ row' = [row EXCEPT ![f] = "running"] /\ handler' = [handler EXCEPT ![f][1] = "read"]
        /\ UNCHANGED <<inputs, stored, crashes>>
      BY <1>4, <2>1 DEF Start
  <2>3. PetitionTypeOK'
      BY <2>2 DEF RowStatuses, JobStatuses, Phases
  <2>4. ClaimedOnce'
      BY <2>2 DEF ClaimedOnce
  <2>5. HandlersStored'
      BY <2>1, <2>2 DEF HandlersStored
  <2>6. QED
      BY <2>3, <2>4, <2>5
<1>5. CASE WorkerDies(f)
  <2>1. claims[f] = 1 /\ crashes' \in 0 .. MaxCrashes
      BY <1>5 DEF WorkerDies, ClaimedOnce
  <2>2. handler' = [handler EXCEPT ![f][1] = "done"] /\ UNCHANGED <<inputs, row, job, claims, stored>>
      BY <1>5, <2>1 DEF WorkerDies
  <2>3. PetitionTypeOK'
      BY <2>1, <2>2 DEF Phases
  <2>4. ClaimedOnce' /\ HandlersStored'
      BY <2>1, <2>2 DEF ClaimedOnce, HandlersStored
  <2>5. QED
      BY <2>3, <2>4
<1>6. CASE LeaseExpires(f) \/ Stall(f)
  <2>1. claims[f] = 1
      BY <1>6 DEF LeaseExpires, Expired, Stall, ClaimedOnce
  <2>2. job' = [job EXCEPT ![f] = "failed"] /\ UNCHANGED <<inputs, row, claims, handler, stored>>
      BY <1>6, <2>1 DEF LeaseExpires, Stall, Reclaimed
  <2>3. crashes' \in 0 .. MaxCrashes
      BY <1>6 DEF LeaseExpires, Stall
  <2>4. QED
      BY <2>1, <2>2, <2>3 DEF ClaimedOnce, HandlersStored, JobStatuses
<1>7. QED
    BY <1>1, <1>2, <1>3, <1>4, <1>5, <1>6

\* Settling a job says nothing of rows and handlers, and does not lease it.
LEMMA SettleIsQuiet ==
  ASSUME PetitionInv, NEW f \in Fills, NEW n \in Claims, NEW status \in {"succeeded", "failed"},
         Settle(f, n, status)
  PROVE  job' \in [Fills -> JobStatuses] /\ \A g \in Fills : job'[g] = "leased" => job[g] = "leased"
  BY DEF PetitionInv, PetitionTypeOK, Settle, JobStatuses

LEMMA HandlerStepKeeps ==
  ASSUME PetitionInv, NEW f \in Fills, NEW n \in Claims,
         \/ FillWorkbook(f, n) \/ FillRaises(f, n) \/ Put(f, n) \/ PutRaises(f, n) \/ Record(f, n)
  PROVE  PetitionInv'
<1>1. n = 1
    BY DEF PetitionInv, ClaimedOnce, Claims, FillWorkbook, FillRaises, Put, PutRaises, Record, Putting
<1>2. handler \in [Fills -> [Claims -> Phases]] /\ 1 \in Claims
    BY DEF PetitionInv, PetitionTypeOK, Claims
<1>3. CASE FillWorkbook(f, n)
    BY <1>1, <1>2, <1>3 DEF FillWorkbook, PetitionInv, PetitionTypeOK, ClaimedOnce, HandlersStored, Phases, Claims
<1>4. CASE FillRaises(f, n)
  <2>1. /\ row' = [row EXCEPT ![f] = "failed"] /\ handler' = [handler EXCEPT ![f][1] = "done"]
        /\ handler[f][1] = "read" /\ UNCHANGED <<inputs, claims, stored, crashes>>
      BY <1>1, <1>4 DEF FillRaises
  <2>2. job' \in [Fills -> JobStatuses] /\ \A g \in Fills : job'[g] = "leased" => job[g] = "leased"
      BY <1>4, SettleIsQuiet DEF FillRaises
  <2>3. PetitionTypeOK'
      BY <1>2, <2>1, <2>2 DEF PetitionInv, PetitionTypeOK, RowStatuses, Phases
  <2>4. ClaimedOnce'
      BY <1>2, <2>1, <2>2 DEF PetitionInv, PetitionTypeOK, ClaimedOnce, Claims
  <2>5. HandlersStored'
      BY <1>2, <2>1 DEF PetitionInv, PetitionTypeOK, HandlersStored
  <2>6. QED
      BY <2>3, <2>4, <2>5 DEF PetitionInv
<1>5. CASE Put(f, n)
  <2>1. /\ handler[f][1] \in Putting
        /\ stored' = [stored EXCEPT ![f] = @ \cup Stores(handler[f][1])]
        /\ handler' = [handler EXCEPT ![f][1] = After(handler[f][1])]
        /\ UNCHANGED <<inputs, row, job, claims, crashes>>
      BY <1>1, <1>2, <1>5 DEF Put
  <2>2. /\ handler[f][1] = "filled" => Stores(handler[f][1]) = {"book"} /\ After(handler[f][1]) = "put_book"
        /\ handler[f][1] = "put_book" => Stores(handler[f][1]) = {"report"} /\ After(handler[f][1]) = "put_report"
        /\ handler[f][1] = "put_report" =>
              Stores(handler[f][1]) = Artefacts \ {"book", "report"} /\ After(handler[f][1]) = "put_all"
      BY DEF Stores, After
  <2>3. stored \in [Fills -> SUBSET Artefacts] /\ {"book", "report"} \subseteq Artefacts
      BY DEF PetitionInv, PetitionTypeOK, Artefacts
  <2>4. PetitionTypeOK'
    <3>1. stored' \in [Fills -> SUBSET Artefacts]
        BY <2>1, <2>2, <2>3 DEF Putting
    <3>2. handler' \in [Fills -> [Claims -> Phases]]
        BY <1>2, <2>1, <2>2 DEF Putting, Phases
    <3>3. QED
        BY <2>1, <3>1, <3>2 DEF PetitionInv, PetitionTypeOK
  <2>5. ClaimedOnce'
      BY <1>2, <2>1, <2>2 DEF PetitionInv, ClaimedOnce, Putting, Claims
  <2>6. HandlersStored'
    <3> SUFFICES ASSUME NEW g \in Fills
                 PROVE  (/\ handler[g][1] \in {"put_book", "put_report", "put_all"} => "book" \in stored[g]
                         /\ handler[g][1] \in {"put_report", "put_all"} => "report" \in stored[g]
                         /\ handler[g][1] = "put_all" \/ row[g] = "filled" => stored[g] = Artefacts)'
        BY DEF HandlersStored
    <3>1. CASE g # f
        BY <1>2, <2>1, <2>3, <3>1 DEF PetitionInv, HandlersStored
    <3>2. CASE g = f
      <4>1. handler'[f][1] = After(handler[f][1]) /\ stored'[f] = stored[f] \cup Stores(handler[f][1])
          BY <1>2, <2>1, <2>3
      <4>2. row'[f] # "filled"
          BY <2>1 DEF PetitionInv, ClaimedOnce, Putting
      <4>3. /\ handler[f][1] \in {"put_book", "put_report"} => "book" \in stored[f]
            /\ handler[f][1] = "put_report" => "report" \in stored[f]
          BY DEF PetitionInv, HandlersStored
      <4>4. QED
          BY <2>1, <2>2, <2>3, <3>2, <4>1, <4>2, <4>3 DEF Putting
    <3>3. QED
        BY <3>1, <3>2
  <2>7. QED
      BY <2>4, <2>5, <2>6 DEF PetitionInv
<1>6. CASE PutRaises(f, n)
  <2>1. /\ handler' = [handler EXCEPT ![f][1] = "done"] /\ handler[f][1] \in Putting
        /\ UNCHANGED <<inputs, row, claims, stored, crashes>>
      BY <1>1, <1>6 DEF PutRaises
  <2>2. job' \in [Fills -> JobStatuses] /\ \A g \in Fills : job'[g] = "leased" => job[g] = "leased"
      BY <1>6, SettleIsQuiet DEF PutRaises
  <2>3. PetitionTypeOK'
      BY <1>2, <2>1, <2>2 DEF PetitionInv, PetitionTypeOK, Phases
  <2>4. ClaimedOnce' /\ HandlersStored'
      BY <1>2, <2>1, <2>2 DEF PetitionInv, ClaimedOnce, HandlersStored, Putting, Claims
  <2>5. QED
      BY <2>3, <2>4 DEF PetitionInv
<1>7. CASE Record(f, n)
  <2>1. /\ row' = [row EXCEPT ![f] = "filled"] /\ handler' = [handler EXCEPT ![f][1] = "done"]
        /\ handler[f][1] = "put_all" /\ UNCHANGED <<inputs, claims, stored, crashes>>
      BY <1>1, <1>7 DEF Record
  <2>2. job' \in [Fills -> JobStatuses] /\ \A g \in Fills : job'[g] = "leased" => job[g] = "leased"
      BY <1>7, SettleIsQuiet DEF Record
  <2>3. PetitionTypeOK'
      BY <1>2, <2>1, <2>2 DEF PetitionInv, PetitionTypeOK, RowStatuses, Phases
  <2>4. ClaimedOnce'
      BY <1>2, <2>1, <2>2 DEF PetitionInv, PetitionTypeOK, ClaimedOnce, Claims
  <2>5. HandlersStored'
      BY <1>2, <2>1 DEF PetitionInv, PetitionTypeOK, HandlersStored
  <2>6. QED
      BY <2>3, <2>4, <2>5 DEF PetitionInv
<1>8. QED
    BY <1>3, <1>4, <1>5, <1>6, <1>7

LEMMA StepKeepsPetition == PetitionInv /\ [PetitionNext]_petitionVars => PetitionInv'
<1> SUFFICES ASSUME PetitionInv, [PetitionNext]_petitionVars PROVE PetitionInv'
    OBVIOUS
<1>1. CASE UNCHANGED petitionVars
    BY <1>1 DEF petitionVars, PetitionInv, PetitionTypeOK, ClaimedOnce, HandlersStored
<1>2. CASE StoreInputs
    BY <1>2, PetitionAssumption DEF StoreInputs, PetitionInv, PetitionTypeOK, ClaimedOnce, HandlersStored
<1>3. CASE \E f \in Fills : \/ RequestFill(f) \/ CancelQueued(f) \/ Start(f)
                            \/ WorkerDies(f) \/ LeaseExpires(f) \/ Stall(f)
    BY <1>3, QueueStepKeeps
<1>4. CASE \E f \in Fills : HandlerStep(f)
    BY <1>4, HandlerStepKeeps DEF HandlerStep
<1>5. QED
    BY <1>1, <1>2, <1>3, <1>4 DEF PetitionNext

\* What one step does to a settled row, and to one it settles.
LEMMA StepHoldsFills ==
  ASSUME PetitionInv, PetitionInv', PetitionNext, NEW f \in Fills
  PROVE  /\ row'[f] = "filled" => stored'[f] = Artefacts
         /\ row[f] \in {"filled", "failed"} => row'[f] = row[f]
<1>1. row'[f] = "filled" => stored'[f] = Artefacts
    BY DEF PetitionInv, HandlersStored
<1>2. ASSUME row[f] \in {"filled", "failed"} PROVE row'[f] = row[f]
  <2>1. handler[f][1] = "done" /\ handler[f][2] = "idle" /\ claims[f] # 0 /\ row[f] # "none"
      BY <1>2 DEF PetitionInv, ClaimedOnce
  <2>2. claims[f] \in 0 .. 1 /\ row \in [Fills -> RowStatuses]
      BY DEF PetitionInv, PetitionTypeOK, MaxAttempts
  <2>3. ASSUME NEW g \in Fills, HandlerStep(g) PROVE row'[f] = row[f]
    <3>1. g = f => ~HandlerStep(g)
        BY <2>1 DEF HandlerStep, Claims, FillWorkbook, FillRaises, Put, PutRaises, Record, Putting
    <3>2. g # f
        BY <2>3, <3>1
    <3>3. QED
        BY <2>2, <2>3, <3>2 DEF HandlerStep, FillWorkbook, FillRaises, Put, PutRaises, Record
  <2>4. ASSUME NEW g \in Fills, Start(g) PROVE row'[f] = row[f]
    <3>1. g # f
        BY <2>1, <2>2, <2>4 DEF Start, MaxAttempts
    <3>2. QED
        BY <2>2, <2>4, <3>1 DEF Start
  <2>5. ASSUME NEW g \in Fills, RequestFill(g) PROVE row'[f] = row[f]
      BY <2>1, <2>2, <2>5 DEF RequestFill
  <2>6. ASSUME NEW g \in Fills, CancelQueued(g) \/ WorkerDies(g) \/ LeaseExpires(g) \/ Stall(g) PROVE row'[f] = row[f]
      BY <2>6 DEF CancelQueued, WorkerDies, LeaseExpires, Stall
  <2>7. QED
      BY <2>3, <2>4, <2>5, <2>6 DEF PetitionNext, StoreInputs
<1>3. QED
    BY <1>1, <1>2

-----------------------------------------------------------------------------
\* The state of fills, jobs, handlers and artefacts is well typed, for any fills and crashes.
THEOREM PetitionTypeCorrect == PetitionSpec => []PetitionTypeOK
<1>1. PetitionInv => PetitionTypeOK
    BY DEF PetitionInv
<1>2. QED
    BY <1>1, InitEstablishesPetition, StepKeepsPetition, PTL DEF PetitionSpec

\* A row that says filled has all its artefacts stored, and a settled row stays as it is,
\* whatever dies, stalls past its lease or is cancelled (run_fill, request_fill).
THEOREM PetitionFillHolds == PetitionSpec => FillHolds
<1>1. PetitionInv /\ PetitionInv' /\ [PetitionNext]_petitionVars =>
          [\A f \in Fills :
             /\ row'[f] = "filled" => stored'[f] = Artefacts
             /\ row[f] \in {"filled", "failed"} => row'[f] = row[f]]_petitionVars
    BY StepHoldsFills
<1>2. QED
    BY <1>1, InitEstablishesPetition, StepKeepsPetition, PTL DEF PetitionSpec, FillHolds

-----------------------------------------------------------------------------
(* The ARR reading track of an order, for any lines, figures and rows.     *)
(* TrackCheckpoints is not inductive: that an extraction reads what was    *)
(* confirmed rests on the reading it took with it and on the chapters a    *)
(* confirmation under way has loaded (ConfirmedRead), and on what may run  *)
(* in each state (InOrder), for chapters that were not written beside      *)
(* another step.  That a fact rests on a decision is inductive once rows   *)
(* and facts are typed.  That the finding that blocks is the one there is  *)
(* now rests on what a validation found that nothing disturbed (FoundAsIs).*)

Figured == [line : Lines, value : Figures]
ArrCandidates == [status : {"pending"} \cup Decided, line : Lines, value : Figures, published : BOOLEAN, read : Figured,
                  reading : 1 .. MaxReadings]

RowsTyped == rows \in [Rows -> ArrCandidates \cup {NoRow}]
FactsTyped == facts \in [Lines -> [row : Rows, value : Figures] \cup {NoFact}]

Statuses == {"none", "proposed", "confirmed", "excluded"}

StageTyped ==
    /\ stage = [k \in ArrStages |-> stage[k]]
    /\ \A k \in ArrStages : stage[k] = Idle \/ stage[k].at \in {"queued", "running", "writing"}
    /\ stage["localise"] # Idle => chapter.reading < MaxReadings
    /\ stage["localise"].at = "writing" /\ stage["localise"].loaded = "chapters_proposed" => arrState # "none"
    /\ stage["validate"].at = "running" => stage["validate"].fails \in BOOLEAN /\ arrState # "none"

ChapterTyped ==
    /\ arrState \in ArrStates /\ blocking \in BOOLEAN /\ calls \in 0 .. MaxCalls
    /\ chapter \in [reading : 0 .. MaxReadings, status : Statuses]
    /\ arrState # "none" => chapter.reading # 0
    /\ arrState = "none" => chapter.status = "none"

CallTyped ==
    call # NoCall =>
        /\ call \in [does : {"update", "confirm", "publish"}, state : ArrStates \ {"none"},
                     chapter : [reading : 0 .. MaxReadings, status : Statuses], status : Statuses]
        /\ call.does = "update" => call.status # "none"
        /\ call.does = "confirm" => call.state = "chapters_proposed"
        /\ arrState # "none"

\* The chapters were not written beside another step on the order.
Own == chapter.reading \notin beside

\* What is confirmed and what is being read from it.
ConfirmedRead ==
    /\ chapter.status = "confirmed" => chapter.reading \in confirmed
    /\ stage["extract"].at = "running" =>
          /\ stage["extract"].reading \in confirmed \cap (1 .. MaxReadings)
          /\ Own => chapter.reading = stage["extract"].reading
          /\ chapter.reading # 0
    /\ stage["validate"].at = "running" /\ Own => chapter.reading \in confirmed
    /\ call.does = "confirm" /\ Own => chapter.reading = call.chapter.reading
    /\ call.does = "publish" /\ Own => chapter.reading \in confirmed

\* A confirmation precedes the extraction of its chapters, that the validation of what it wrote,
\* and that a publication.
InOrder == Own =>
    /\ stage["extract"] # Idle => arrState \in {"chapters_proposed", "chapters_confirmed"}
    /\ stage["extract"].at = "running" => arrState = "chapters_confirmed"
    /\ stage["validate"].at = "running" =>
          /\ arrState \in {"extracted", "awaiting_review", "published"}
          /\ arrState = "extracted" => stage["validate"].from = "extracted"
    /\ call.does = "confirm" => arrState = "chapters_proposed"
    /\ call.does = "publish" => Decidable

Disputed == IdentityFails(Standing)

\* What a validation that nothing disturbed has found, and what it left.
FoundAsIs ==
    /\ stage["validate"].at = "queued" => unseen
    /\ stage["validate"].at = "running" /\ ~unseen => stage["validate"].fails = Disputed
LeftAsIs == stage["validate"] = Idle /\ ~unseen => blocking = Disputed

TrackTyped == ChapterTyped /\ RowsTyped /\ FactsTyped /\ StageTyped /\ CallTyped
TrackFlow == ReadFromConfirmed /\ CheckpointHolds /\ ExtractedIsValidated /\ ConfirmedRead /\ InOrder
TrackFindings == FoundAsIs /\ LeftAsIs
TrackInv == TrackTyped /\ TrackFlow /\ FactsRestOnDecisions /\ TrackFindings

LEMMA StageNames == ArrStages = {"localise", "extract", "validate"} /\ "localise" \in ArrStages /\ "extract" \in ArrStages /\ "validate" \in ArrStages
BY DEF ArrStages

LEMMA InitEstablishesTrack == TrackInit => TrackInv
<1> SUFFICES ASSUME TrackInit PROVE TrackInv
  OBVIOUS
<1> USE TrackAssumption DEF TrackInit
<1>1. TrackTyped
  <2>1. ChapterTyped
    <3>1. arrState \in ArrStates
      BY DEF ArrStates
    <3>2. calls \in 0 .. MaxCalls /\ 0 \in 0 .. MaxReadings
      BY DEF TrackAssumption
    <3>3. blocking \in BOOLEAN /\ arrState = "none" /\ chapter = [reading |-> 0, status |-> "none"]
      OBVIOUS
    <3> QED
      BY <3>1, <3>2, <3>3 DEF ChapterTyped, Statuses
  <2>2. RowsTyped
    BY DEF RowsTyped
  <2>3. FactsTyped
    BY DEF FactsTyped
  <2>4. StageTyped
    BY DEF StageTyped, ArrStages, Idle
  <2> QED
    BY <2>1, <2>2, <2>3, <2>4 DEF TrackTyped, CallTyped
<1>2. TrackFlow
  BY StageNames DEF TrackFlow, ReadFromConfirmed, CheckpointHolds, PastCheckpoint, ExtractedIsValidated, ConfirmedRead,
                    InOrder, Idle, NoCall
<1>3. FactsRestOnDecisions
  BY DEF FactsRestOnDecisions
<1>4. TrackFindings
  BY StageNames DEF TrackFindings, FoundAsIs, LeftAsIs, Disputed, IdentityFails, Standing, NoRow, Idle
<1> QED
  BY <1>1, <1>2, <1>3, <1>4 DEF TrackInv

\* A call or a stage that leaves rows and facts alone.
LEMMA QuietTrack ==
  ASSUME TrackInv, UNCHANGED <<rows, facts>>, confirmed \subseteq confirmed',
         TrackTyped', CheckpointHolds', ExtractedIsValidated', ConfirmedRead', InOrder', TrackFindings'
  PROVE  TrackInv'
<1>1. ReadFromConfirmed'
  BY DEF TrackInv, TrackFlow, ReadFromConfirmed
<1>2. FactsRestOnDecisions'
  BY DEF TrackInv, FactsRestOnDecisions
<1> QED
  BY <1>1, <1>2 DEF TrackInv, TrackFlow


\* What a step on one stage alone may make of it.
MayBecome(k, v) ==
    /\ v = Idle \/ v.at \in {"queued", "running", "writing"}
    /\ k = "localise" /\ v # Idle => chapter.reading < MaxReadings
    /\ k = "localise" /\ v.at = "writing" => v.loaded = arrState
    /\ k = "extract" /\ v # Idle => stage["extract"] # Idle
    /\ k = "extract" /\ v.at = "running" =>
          /\ v.reading \in confirmed \cap (1 .. MaxReadings) /\ v.reading = chapter.reading
          /\ arrState \in {"chapters_confirmed", "extracted", "awaiting_review"}
    /\ k = "validate" /\ v = Idle => arrState \notin {"extracted", "awaiting_review", "published"}
    /\ k = "validate" /\ v.at = "running" =>
          /\ arrState \in {"extracted", "awaiting_review", "published"} /\ v.from = arrState
          /\ v.fails = Disputed

LEMMA StageMoves ==
  ASSUME TrackInv, UNCHANGED <<arrState, chapter, rows, blocking, facts, call, confirmed, beside>>,
         calls' \in 0 .. MaxCalls, NEW k \in ArrStages, NEW v, MayBecome(k, v), stage' = [stage EXCEPT ![k] = v],
         k # "validate" => unseen' = unseen, k = "validate" /\ v.at # "running" => unseen'
  PROVE  TrackInv'
<1> USE StageNames
<1>1. \A m \in ArrStages : stage'[m] = IF m = k THEN v ELSE stage[m]
  BY DEF TrackInv, TrackTyped, StageTyped
<1>2. v.at = "running" => v # Idle
  BY DEF Idle
<1>3. TrackTyped'
  <2>1. ChapterTyped' /\ RowsTyped' /\ FactsTyped' /\ CallTyped'
    BY DEF TrackInv, TrackTyped, ChapterTyped, RowsTyped, FactsTyped, CallTyped
  <2>2. stage' = [m \in ArrStages |-> stage'[m]]
    BY DEF TrackInv, TrackTyped, StageTyped
  <2>3. \A m \in ArrStages : stage'[m] = Idle \/ stage'[m].at \in {"queued", "running", "writing"}
    BY <1>1 DEF TrackInv, TrackTyped, StageTyped, MayBecome
  <2>4. stage'["localise"] # Idle => chapter'.reading < MaxReadings
    BY <1>1 DEF TrackInv, TrackTyped, StageTyped, MayBecome
  <2>6. stage'["localise"].at = "writing" /\ stage'["localise"].loaded = "chapters_proposed" => arrState' # "none"
    BY <1>1 DEF TrackInv, TrackTyped, StageTyped, MayBecome
  <2>5. stage'["validate"].at = "running" => stage'["validate"].fails \in BOOLEAN /\ arrState' # "none"
    <3>1. CASE k = "validate"
      BY <1>1, <3>1 DEF MayBecome, Disputed, IdentityFails
    <3>2. CASE k # "validate"
      BY <1>1, <3>2 DEF TrackInv, TrackTyped, StageTyped
    <3> QED
      BY <3>1, <3>2
  <2> QED
    BY <2>1, <2>2, <2>3, <2>4, <2>5, <2>6 DEF TrackTyped, StageTyped
<1>4. CheckpointHolds'
  BY DEF TrackInv, TrackFlow, CheckpointHolds
<1>5. ExtractedIsValidated'
  <2> SUFFICES ASSUME Own, arrState' = "extracted", stage'["validate"] = Idle PROVE FALSE
    BY DEF ExtractedIsValidated, Own
  <2>1. CASE k = "validate"
    BY <1>1, <2>1 DEF MayBecome
  <2>2. CASE k # "validate"
    BY <1>1, <2>2 DEF TrackInv, TrackFlow, ExtractedIsValidated, Own
  <2> QED
    BY <2>1, <2>2
<1>6. ConfirmedRead'
  <2>0. (chapter.status = "confirmed" => chapter.reading \in confirmed) /\ Own' = Own
    BY DEF TrackInv, TrackFlow, ConfirmedRead, Own
  <2>3. stage'["validate"].at = "running" /\ Own => chapter.reading \in confirmed
    <3>1. CASE k = "validate"
      BY <1>1, <3>1 DEF TrackInv, TrackFlow, CheckpointHolds, PastCheckpoint, ArrStates, MayBecome, Own
    <3>2. CASE k # "validate"
      BY <1>1, <3>2 DEF TrackInv, TrackFlow, ConfirmedRead
    <3> QED
      BY <3>1, <3>2
  <2>1. CASE k = "extract"
    <3>1. arrState # "none" => chapter.reading # 0
      BY DEF TrackInv, TrackTyped, ChapterTyped
    <3> QED
      BY <1>1, <2>0, <2>1, <2>3, <3>1 DEF TrackInv, TrackFlow, ConfirmedRead, MayBecome
  <2>2. CASE k # "extract"
    BY <1>1, <2>0, <2>2, <2>3 DEF TrackInv, TrackFlow, ConfirmedRead
  <2> QED
    BY <2>1, <2>2
<1>7. InOrder'
  <2> SUFFICES ASSUME Own
               PROVE  /\ stage'["extract"] # Idle => arrState \in {"chapters_proposed", "chapters_confirmed"}
                      /\ stage'["extract"].at = "running" => arrState = "chapters_confirmed"
                      /\ stage'["validate"].at = "running" =>
                            /\ arrState \in {"extracted", "awaiting_review", "published"}
                            /\ arrState = "extracted" => stage'["validate"].from = "extracted"
    BY DEF InOrder, Own, Decidable, TrackInv, TrackFlow
  <2>1. stage'["extract"] # Idle => stage["extract"] # Idle
    BY <1>1 DEF MayBecome
  <2>2. stage'["extract"].at = "running" => arrState = "chapters_confirmed"
    <3>1. CASE k = "extract"
      BY <1>1, <2>1, <3>1 DEF TrackInv, TrackFlow, InOrder, MayBecome, Idle
    <3>2. CASE k # "extract"
      BY <1>1, <3>2 DEF TrackInv, TrackFlow, InOrder
    <3> QED
      BY <3>1, <3>2
  <2>3. CASE k = "validate"
    BY <1>1, <2>1, <2>2, <2>3 DEF TrackInv, TrackFlow, InOrder, MayBecome
  <2>4. CASE k # "validate"
    BY <1>1, <2>1, <2>2, <2>4 DEF TrackInv, TrackFlow, InOrder
  <2> QED
    BY <2>3, <2>4
<1>8. Disputed' = Disputed
  BY DEF Disputed, IdentityFails, Standing
<1>9. TrackFindings'
  <2>1. CASE k = "validate"
    <3>1. stage'["validate"] = v
      BY <1>1, <2>1
    <3>2. FoundAsIs'
      BY <1>8, <2>1, <3>1 DEF FoundAsIs, MayBecome
    <3>3. LeftAsIs'
      BY <2>1, <3>1 DEF LeftAsIs, Idle
    <3> QED
      BY <3>2, <3>3 DEF TrackFindings
  <2>2. CASE k # "validate"
    <3>1. stage'["validate"] = stage["validate"] /\ unseen' = unseen
      BY <1>1, <2>2
    <3> QED
      BY <1>8, <3>1 DEF TrackInv, TrackFindings, FoundAsIs, LeftAsIs
  <2> QED
    BY <2>1, <2>2
<1> QED
  BY <1>3, <1>4, <1>5, <1>6, <1>7, <1>9, QuietTrack DEF TrackInv

\* The steps that move one stage and nothing else.
LEMMA StageStepKeeps ==
  ASSUME TrackInv,
         StartReading \/ LocaliseRead \/ LocaliseLoad \/ ExtractRead \/ ValidateRead \/ ValidateRolledBack \/ (\E k \in ArrStages : StageLost(k))
  PROVE  TrackInv'
<1> USE StageNames
<1>t. /\ calls \in 0 .. MaxCalls /\ chapter.reading \in 0 .. MaxReadings
      /\ arrState # "none" => chapter.reading # 0
  BY DEF TrackInv, TrackTyped, ChapterTyped
<1>1. CASE StartReading
  <2>1. MayBecome("localise", [at |-> "queued"]) /\ stage' = [stage EXCEPT !["localise"] = [at |-> "queued"]]
    BY <1>1 DEF StartReading, QueuedStage, MayBecome, Idle
  <2> QED
    BY <1>1, <1>t, <2>1, StageMoves DEF StartReading
<1>2. CASE LocaliseRead
  <2>1. stage' = [stage EXCEPT !["localise"] = [at |-> "running"]] /\ stage["localise"] # Idle
    BY <1>2 DEF LocaliseRead, Idle
  <2>2. MayBecome("localise", [at |-> "running"])
    BY <2>1 DEF MayBecome, TrackInv, TrackTyped, StageTyped
  <2> QED
    BY <1>2, <1>t, <2>1, <2>2, StageMoves DEF LocaliseRead
<1>9. CASE LocaliseLoad
  <2> DEFINE v == [at |-> "writing", loaded |-> arrState]
  <2>1. v.at = "writing" /\ v.loaded = arrState /\ v # Idle
    BY DEF Idle
  <2>2. stage' = [stage EXCEPT !["localise"] = v] /\ stage["localise"] # Idle
    BY <1>9 DEF LocaliseLoad, Idle
  <2> HIDE DEF v
  <2>3. MayBecome("localise", v)
    BY <2>1, <2>2 DEF MayBecome, TrackInv, TrackTyped, StageTyped
  <2> QED
    BY <1>9, <1>t, <2>2, <2>3, StageMoves DEF LocaliseLoad
<1>3. CASE ExtractRead /\ Extractable
  <2> DEFINE v == [at |-> "running", reading |-> chapter.reading]
  <2>1. v.at = "running" /\ v.reading = chapter.reading /\ v # Idle
    BY DEF Idle
  <2>2. stage' = [stage EXCEPT !["extract"] = v]
    BY <1>3 DEF ExtractRead
  <2> HIDE DEF v
  <2>3. chapter.reading \in confirmed \cap (1 .. MaxReadings)
    BY <1>3, <1>t, TrackAssumption DEF Extractable, TrackInv, TrackFlow, ConfirmedRead
  <2>4. stage["extract"] # Idle
    BY <1>3 DEF ExtractRead, Idle
  <2>5. MayBecome("extract", v)
    BY <1>3, <2>1, <2>3, <2>4 DEF MayBecome, Extractable
  <2> QED
    BY <1>3, <1>t, <2>2, <2>5, StageMoves DEF ExtractRead
<1>4. CASE ExtractRead /\ ~Extractable
  <2>1. MayBecome("extract", Idle) /\ stage' = [stage EXCEPT !["extract"] = Idle]
    BY <1>4 DEF ExtractRead, MayBecome, Idle
  <2> QED
    BY <1>4, <1>t, <2>1, StageMoves DEF ExtractRead
<1>5. CASE ValidateRead /\ arrState \in {"extracted", "awaiting_review", "published"}
  <2> DEFINE v == [at |-> "running", from |-> arrState, fails |-> IdentityFails(Standing), over |-> Standing]
  <2>1. v.at = "running" /\ v.from = arrState /\ v.fails = Disputed /\ v # Idle
    BY DEF Idle, Disputed
  <2>2. stage' = [stage EXCEPT !["validate"] = v]
    BY <1>5 DEF ValidateRead
  <2> HIDE DEF v
  <2>3. MayBecome("validate", v)
    BY <1>5, <2>1 DEF MayBecome
  <2> QED
    BY <1>5, <1>t, <2>1, <2>2, <2>3, StageMoves DEF ValidateRead
<1>6. CASE ValidateRead /\ arrState \notin {"extracted", "awaiting_review", "published"}
  <2>1. MayBecome("validate", Idle) /\ stage' = [stage EXCEPT !["validate"] = Idle]
    BY <1>6 DEF ValidateRead, MayBecome, Idle
  <2>2. unseen'
    BY <1>6 DEF ValidateRead, TrackInv, TrackFindings, FoundAsIs
  <2> QED
    BY <1>6, <1>t, <2>1, <2>2, StageMoves DEF ValidateRead
<1>7. CASE ValidateRolledBack
  <2>1. MayBecome("validate", [at |-> "queued"]) /\ stage' = [stage EXCEPT !["validate"] = [at |-> "queued"]]
    BY <1>7 DEF ValidateRolledBack, MayBecome, Idle
  <2> QED
    BY <1>7, <1>t, <2>1, StageMoves DEF ValidateRolledBack
<1>8. CASE \E k \in ArrStages : StageLost(k)
  <2>1. PICK k \in ArrStages : StageLost(k)
    BY <1>8
  <2>2. stage[k] # Idle /\ stage' = [stage EXCEPT ![k] = [at |-> "queued"]] /\ calls' \in 0 .. MaxCalls
    BY <1>t, <2>1, TrackAssumption DEF StageLost, TrackCall, Idle
  <2>3. MayBecome(k, [at |-> "queued"])
    BY <2>2 DEF MayBecome, Idle, TrackInv, TrackTyped, StageTyped
  <2>5. unseen' = IF k = "validate" THEN TRUE ELSE unseen
    BY <2>1 DEF StageLost
  <2>6. UNCHANGED <<arrState, chapter, rows, blocking, facts, call, confirmed, beside>>
    BY <2>1 DEF StageLost
  <2> QED
    BY <2>2, <2>3, <2>5, <2>6, StageMoves
<1> QED
  BY <1>1, <1>2, <1>3, <1>4, <1>5, <1>6, <1>7, <1>8, <1>9 DEF ExtractRead, ValidateRead

LEMMA SameDispute == ASSUME UNCHANGED rows PROVE Disputed' = Disputed
BY DEF Disputed, IdentityFails, Standing

LEMMA ChapterFields ==
  ASSUME TrackInv
  PROVE  /\ arrState \in ArrStates /\ blocking \in BOOLEAN /\ calls \in 0 .. MaxCalls
         /\ chapter = [reading |-> chapter.reading, status |-> chapter.status]
         /\ chapter.reading \in 0 .. MaxReadings /\ chapter.status \in Statuses
         /\ arrState # "none" => chapter.reading # 0
         /\ arrState = "none" => chapter.status = "none"
BY DEF TrackInv, TrackTyped, ChapterTyped

\* What a call under way has loaded.
LEMMA CallFields ==
  ASSUME TrackInv, call # NoCall
  PROVE  /\ call.does \in {"update", "confirm", "publish"} /\ call.state \in ArrStates \ {"none"}
         /\ call.status \in Statuses /\ (call.does = "update" => call.status # "none")
         /\ call.does = "confirm" => call.state = "chapters_proposed"
         /\ arrState # "none" /\ chapter.reading # 0
BY DEF TrackInv, TrackTyped, CallTyped, ChapterTyped

\* A call is opened, or fails: nothing else moves.
LEMMA CallMoves ==
  ASSUME TrackInv, UNCHANGED <<arrState, chapter, rows, blocking, facts, stage, confirmed, beside, unseen>>,
         calls' \in 0 .. MaxCalls, CallTyped',
         call'.does = "confirm" => arrState = "chapters_proposed" /\ call'.chapter = chapter,
         call'.does = "publish" => Decidable
  PROVE  TrackInv'
<1>1. TrackTyped'
  BY DEF TrackInv, TrackTyped, ChapterTyped, RowsTyped, FactsTyped, StageTyped
<1>2. CheckpointHolds' /\ ExtractedIsValidated'
  BY DEF TrackInv, TrackFlow, CheckpointHolds, ExtractedIsValidated
<1>3. Decidable /\ Own => chapter.reading \in confirmed
  BY DEF TrackInv, TrackFlow, CheckpointHolds, Decidable, PastCheckpoint, ArrStates, Own
<1>4. ConfirmedRead'
  BY <1>3 DEF TrackInv, TrackFlow, ConfirmedRead, Own
<1>5. InOrder'
  BY DEF TrackInv, TrackFlow, InOrder, Own, Decidable
<1>6. TrackFindings'
  BY SameDispute DEF TrackInv, TrackFindings, FoundAsIs, LeftAsIs
<1> QED
  BY <1>1, <1>2, <1>4, <1>5, <1>6, QuietTrack

LEMMA CallStepKeeps ==
  ASSUME TrackInv, AskUpdate \/ AskConfirm \/ AskPublish \/ CallFails
  PROVE  TrackInv'
<1>0. calls \in 0 .. MaxCalls /\ ArrStates = {"none", "chapters_proposed", "chapters_confirmed", "extracted", "awaiting_review", "published"}
  BY ChapterFields DEF ArrStates
<1> DEFINE asked(does, status) == [does |-> does, state |-> arrState, chapter |-> chapter, status |-> status]
<1>t. ASSUME NEW does \in {"update", "confirm", "publish"}, NEW status \in Statuses, arrState # "none"
      PROVE  /\ asked(does, status) \in [does : {"update", "confirm", "publish"}, state : ArrStates \ {"none"},
                                        chapter : [reading : 0 .. MaxReadings, status : Statuses], status : Statuses]
             /\ asked(does, status).does = does /\ asked(does, status).state = arrState
             /\ asked(does, status).chapter = chapter /\ asked(does, status).status = status
  BY <1>t, ChapterFields DEF TrackInv, TrackTyped, ChapterTyped
<1>1. CASE AskUpdate
  <2>1. PICK status \in {"proposed", "confirmed", "excluded"} : Ask("update", status)
    BY <1>1 DEF AskUpdate
  <2>2. call' = asked("update", status) /\ arrState # "none" /\ status \in Statuses /\ status # "none"
    BY <1>1, <2>1 DEF AskUpdate, Ask, Statuses
  <2>3. calls' \in 0 .. MaxCalls
    BY <1>0, <1>1, TrackAssumption DEF AskUpdate, TrackCall
  <2>4. UNCHANGED <<arrState, chapter, rows, blocking, facts, stage, confirmed, beside, unseen>>
    BY <2>1 DEF Ask
  <2> HIDE DEF asked
  <2> QED
    BY <1>t, <2>2, <2>3, <2>4, CallMoves DEF CallTyped
<1>2. CASE AskConfirm
  <2>1. call' = asked("confirm", "confirmed") /\ arrState = "chapters_proposed" /\ "confirmed" \in Statuses
    BY <1>2 DEF AskConfirm, Ask, Statuses
  <2>2. UNCHANGED <<arrState, chapter, rows, blocking, facts, stage, confirmed, beside, unseen, calls>>
    BY <1>2 DEF AskConfirm, Ask
  <2> HIDE DEF asked
  <2> QED
    BY <1>0, <1>t, <2>1, <2>2, CallMoves DEF CallTyped
<1>3. CASE AskPublish
  <2>1. call' = asked("publish", chapter.status) /\ Decidable /\ arrState # "none" /\ chapter.status \in Statuses
    BY <1>3, ChapterFields DEF AskPublish, Ask, Decidable
  <2>2. UNCHANGED <<arrState, chapter, rows, blocking, facts, stage, confirmed, beside, unseen, calls>>
    BY <1>3 DEF AskPublish, Ask
  <2> HIDE DEF asked
  <2> QED
    BY <1>0, <1>t, <2>1, <2>2, CallMoves DEF CallTyped
<1>4. CASE CallFails
  BY <1>0, <1>4, CallMoves DEF CallFails, CallTyped, NoCall
<1> QED
  BY <1>1, <1>2, <1>3, <1>4

\* The chapter is decided on, and rows and facts are not.
LEMMA UpdateChapterKeeps == ASSUME TrackInv, UpdateChapter PROVE TrackInv'
<1> DEFINE st == Flushed(call.status, call.chapter.status, chapter.status)
<1>1. /\ chapter' = [chapter EXCEPT !.status = st]
      /\ confirmed' = IF call.status = "confirmed" THEN confirmed \cup {chapter.reading} ELSE confirmed
      /\ call' = NoCall /\ call # NoCall /\ call.does = "update"
      /\ UNCHANGED <<arrState, rows, blocking, facts, stage, calls, beside, unseen>>
  BY DEF UpdateChapter, NoCall
<1>2. (st \in Statuses /\ st # "none") \/ st = chapter.status
  BY <1>1, CallFields DEF Flushed
<1>3. st = "confirmed" => chapter.reading \in confirmed'
  BY <1>1, ChapterFields DEF Flushed, TrackInv, TrackFlow, ConfirmedRead
<1> HIDE DEF st
<1>4. chapter' = [reading |-> chapter.reading, status |-> st] /\ chapter'.reading = chapter.reading /\ chapter'.status = st
  BY <1>1, ChapterFields
<1>5. confirmed \subseteq confirmed' /\ (Own' <=> Own) /\ call'.does = "none"
  BY <1>1, <1>4 DEF Own, NoCall
<1>6. TrackTyped'
  <2>1. ChapterTyped'
    BY <1>1, <1>2, <1>4, ChapterFields, CallFields DEF ChapterTyped
  <2> QED
    BY <1>1, <1>4, <2>1 DEF TrackInv, TrackTyped, RowsTyped, FactsTyped, StageTyped, CallTyped
<1>7. CheckpointHolds' /\ ExtractedIsValidated'
  BY <1>1, <1>4, <1>5 DEF TrackInv, TrackFlow, CheckpointHolds, ExtractedIsValidated
<1>8. ConfirmedRead'
  BY <1>1, <1>3, <1>4, <1>5 DEF TrackInv, TrackFlow, ConfirmedRead
<1>9. InOrder' /\ TrackFindings'
  BY <1>1, <1>5, SameDispute DEF TrackInv, TrackFlow, TrackFindings, InOrder, FoundAsIs, LeftAsIs, Decidable
<1> QED
  BY <1>1, <1>5, <1>6, <1>7, <1>8, <1>9, QuietTrack

LEMMA ConfirmChaptersKeeps == ASSUME TrackInv, ConfirmChapters PROVE TrackInv'
<1> USE StageNames
<1>1. /\ confirmed' = confirmed \cup {call.chapter.reading}
      /\ call' = NoCall /\ call # NoCall /\ call.does = "confirm"
      /\ UNCHANGED <<rows, blocking, facts, calls, beside, unseen>>
  BY DEF ConfirmChapters, NoCall
<1>2. /\ chapter'.reading = chapter.reading /\ chapter' \in [reading : 0 .. MaxReadings, status : Statuses]
      /\ chapter'.status = "confirmed" => chapter.reading \in confirmed'
  <2>1. CASE call.chapter.status = "proposed"
    <3>1. chapter' = [chapter EXCEPT !.status = "confirmed"] /\ chapter.reading = call.chapter.reading
      BY <2>1 DEF ConfirmChapters, SameChapter
    <3>2. chapter' = [reading |-> chapter.reading, status |-> "confirmed"]
      BY <3>1, ChapterFields
    <3> QED
      BY <1>1, <3>1, <3>2, ChapterFields DEF Statuses
  <2>2. CASE call.chapter.status # "proposed"
    <3>1. chapter' = chapter
      BY <2>2 DEF ConfirmChapters
    <3> QED
      BY <1>1, <3>1, ChapterFields DEF TrackInv, TrackFlow, ConfirmedRead
  <2> QED
    BY <2>1, <2>2
<1>3. arrState' = "chapters_confirmed"
  BY <1>1, CallFields DEF ConfirmChapters, Flushed
<1>4. stage' = IF stage["extract"] = Idle THEN [stage EXCEPT !["extract"] = [at |-> "queued"]] ELSE stage
  BY DEF ConfirmChapters, QueuedStage
<1>5. /\ stage' = [k \in ArrStages |-> stage'[k]] /\ stage'["localise"] = stage["localise"] /\ stage'["validate"] = stage["validate"]
      /\ stage'["extract"] = IF stage["extract"] = Idle THEN [at |-> "queued"] ELSE stage["extract"]
  BY <1>4 DEF TrackInv, TrackTyped, StageTyped
<1>6. call'.does = "none" /\ (Own' <=> Own) /\ confirmed \subseteq confirmed'
  BY <1>1, <1>2 DEF Own, NoCall
<1>7. Own => /\ chapter.reading = call.chapter.reading /\ arrState = "chapters_proposed"
             /\ stage["extract"].at # "running" /\ stage["validate"].at # "running"
  BY <1>1 DEF TrackInv, TrackFlow, ConfirmedRead, InOrder
<1>8. TrackTyped'
  <2>1. ChapterTyped'
    <3>1. arrState' \in ArrStates /\ arrState' # "none"
      BY <1>3 DEF ArrStates
    <3> QED
      BY <1>1, <1>2, <3>1, ChapterFields, CallFields DEF ChapterTyped
  <2>2. StageTyped'
    BY <1>2, <1>3, <1>5 DEF TrackInv, TrackTyped, StageTyped
  <2> QED
    BY <1>1, <2>1, <2>2 DEF TrackInv, TrackTyped, RowsTyped, FactsTyped, CallTyped
<1>9. CheckpointHolds' /\ ExtractedIsValidated'
  BY <1>1, <1>2, <1>3, <1>7 DEF CheckpointHolds, ExtractedIsValidated, Own
<1>10. ConfirmedRead'
  <2>1. stage'["extract"].at = "running" => stage'["extract"] = stage["extract"]
    BY <1>5
  <2> QED
    BY <1>2, <1>5, <1>6, <1>7, <2>1 DEF TrackInv, TrackFlow, ConfirmedRead
<1>11. InOrder'
  <2>1. stage'["extract"].at = "running" => stage["extract"].at = "running"
    BY <1>5
  <2> QED
    BY <1>3, <1>5, <1>6, <1>7, <2>1 DEF InOrder
<1>12. TrackFindings'
  BY <1>1, <1>5, SameDispute DEF TrackInv, TrackFindings, FoundAsIs, LeftAsIs
<1> QED
  BY <1>1, <1>6, <1>8, <1>9, <1>10, <1>11, <1>12, QuietTrack

\* Chapters written beside nothing are proposed over a track on which no one is past the checkpoint.
LEMMA LocaliseWriteKeeps == ASSUME TrackInv, LocaliseWrite PROVE TrackInv'
<1> USE StageNames
<1>1. /\ chapter' = [reading |-> chapter.reading + 1, status |-> "proposed"]
      /\ arrState' = Flushed("chapters_proposed", stage["localise"].loaded, arrState)
      /\ beside' = IF Overlapped(arrState') THEN beside \cup {chapter'.reading} ELSE beside
      /\ UNCHANGED <<rows, blocking, facts, call, calls, confirmed, unseen>>
  BY DEF LocaliseWrite
<1>2. /\ stage' = [k \in ArrStages |-> stage'[k]] /\ stage'["localise"] = Idle /\ stage'["extract"] = stage["extract"]
      /\ stage'["validate"] = stage["validate"]
  BY DEF LocaliseWrite, TrackInv, TrackTyped, StageTyped
<1>3. chapter.reading + 1 \in 0 .. MaxReadings /\ chapter.reading + 1 # 0
  <2>1. stage["localise"] # Idle
    BY DEF LocaliseWrite, Idle
  <2>2. chapter.reading < MaxReadings
    BY <2>1 DEF TrackInv, TrackTyped, StageTyped
  <2> QED
    BY <2>2, ChapterFields, TrackAssumption
<1>4. chapter'.reading = chapter.reading + 1 /\ chapter'.status = "proposed"
  BY <1>1
<1>5. arrState' \in ArrStates /\ arrState' # "none"
  <2>1. stage["localise"].at = "writing"
    BY DEF LocaliseWrite
  <2> QED
    BY <1>1, <2>1, ChapterFields DEF Flushed, ArrStates, TrackInv, TrackTyped, StageTyped
<1>6. TrackTyped'
  <2>1. ChapterTyped'
    <3>1. chapter' \in [reading : 0 .. MaxReadings, status : Statuses]
      BY <1>1, <1>3 DEF Statuses
    <3> QED
      BY <1>1, <1>3, <1>4, <1>5, <3>1, ChapterFields DEF ChapterTyped
  <2>2. StageTyped'
    BY <1>2, <1>5 DEF TrackInv, TrackTyped, StageTyped, Idle
  <2>3. CallTyped'
    BY <1>1, <1>5 DEF TrackInv, TrackTyped, CallTyped
  <2> QED
    BY <1>1, <2>1, <2>2, <2>3 DEF TrackInv, TrackTyped, RowsTyped, FactsTyped
<1>7. Own' => /\ arrState' = "chapters_proposed" /\ call.does \notin {"confirm", "publish"}
              /\ stage["extract"].at # "running" /\ stage["validate"].at # "running"
  BY <1>1 DEF Own, Overlapped
<1>8. CheckpointHolds' /\ ExtractedIsValidated'
  BY <1>7 DEF CheckpointHolds, ExtractedIsValidated, PastCheckpoint, Own
<1>9. ConfirmedRead'
  <2>1. stage'["extract"].at = "running" => stage["extract"].reading \in confirmed \cap (1 .. MaxReadings)
    BY <1>2 DEF TrackInv, TrackFlow, ConfirmedRead
  <2> QED
    BY <1>1, <1>2, <1>3, <1>4, <1>7, <2>1 DEF ConfirmedRead
<1>10. InOrder'
  BY <1>1, <1>2, <1>7 DEF InOrder
<1>11. TrackFindings'
  BY <1>1, <1>2, SameDispute DEF TrackInv, TrackFindings, FoundAsIs, LeftAsIs
<1> QED
  BY <1>1, <1>6, <1>8, <1>9, <1>10, <1>11, QuietTrack

LEMMA ValidateWriteKeeps == ASSUME TrackInv, ValidateWrite PROVE TrackInv'
<1> USE StageNames
<1>1. /\ stage["validate"].at = "running" /\ blocking' = stage["validate"].fails
      /\ arrState' = IF stage["validate"].from = "extracted" THEN "awaiting_review" ELSE arrState
      /\ UNCHANGED <<chapter, rows, facts, call, calls, confirmed, beside, unseen>>
  BY DEF ValidateWrite
<1>2. /\ stage' = [k \in ArrStages |-> stage'[k]] /\ stage'["validate"] = Idle /\ stage'["extract"] = stage["extract"]
      /\ stage'["localise"] = stage["localise"]
  BY DEF ValidateWrite, TrackInv, TrackTyped, StageTyped
<1>3. Own => /\ arrState \in {"extracted", "awaiting_review", "published"}
             /\ arrState = "extracted" => stage["validate"].from = "extracted"
             /\ stage["extract"] = Idle /\ call.does # "confirm" /\ chapter.reading \in confirmed
             /\ call.does = "publish" => arrState # "extracted"
  BY <1>1 DEF TrackInv, TrackFlow, InOrder, ConfirmedRead, Decidable
<1>4. TrackTyped'
  <2>1. arrState' \in ArrStates /\ arrState' # "none" /\ arrState # "none"
    BY <1>1, ChapterFields DEF ArrStates, TrackInv, TrackTyped, StageTyped
  <2>2. blocking' \in BOOLEAN
    BY <1>1 DEF TrackInv, TrackTyped, StageTyped
  <2>3. ChapterTyped'
    BY <1>1, <2>1, <2>2, ChapterFields DEF ChapterTyped
  <2>4. StageTyped'
    BY <1>1, <1>2, <2>1 DEF TrackInv, TrackTyped, StageTyped, Idle
  <2>5. CallTyped'
    BY <1>1, <2>1 DEF TrackInv, TrackTyped, CallTyped
  <2> QED
    BY <1>1, <2>3, <2>4, <2>5 DEF TrackInv, TrackTyped, RowsTyped, FactsTyped
<1>5. Own' = Own
  BY <1>1 DEF Own
<1>6. CheckpointHolds' /\ ExtractedIsValidated'
  BY <1>1, <1>3 DEF CheckpointHolds, ExtractedIsValidated, Own
<1>7. ConfirmedRead'
  BY <1>1, <1>2, <1>5 DEF TrackInv, TrackFlow, ConfirmedRead, Idle
<1>8. InOrder'
  BY <1>1, <1>2, <1>3, <1>5 DEF InOrder, Idle, Decidable
<1>9. TrackFindings'
  BY <1>1, <1>2, SameDispute DEF TrackInv, TrackFindings, FoundAsIs, LeftAsIs, Idle
<1> QED
  BY <1>1, <1>4, <1>6, <1>7, <1>8, <1>9, QuietTrack

-----------------------------------------------------------------------------
(* Steps on rows and facts.                                                *)

\* A call on one row that is not published.
LEMMA RowCallKeeps ==
  ASSUME TrackInv, NEW r \in Rows, NEW cand \in ArrCandidates,
         rows[r] \in ArrCandidates, rows[r].status = "pending" \/ ~rows[r].published,
         rows' = [q \in Rows |-> IF q = r THEN cand ELSE rows[q]], cand.reading = rows[r].reading,
         stage' = stage \/ (unseen' /\ stage' = QueuedStage(stage, "validate")),
         unseen' \/ (~unseen /\ cand.status # "rejected" /\ rows[r].status # "rejected" /\ cand.value = rows[r].value),
         calls' \in 0 .. MaxCalls,
         UNCHANGED <<arrState, chapter, blocking, facts, call, confirmed, beside>>
  PROVE  TrackInv'
<1> USE StageNames
<1>1. \A q \in Rows : rows'[q] = IF q = r THEN cand ELSE rows[q]
  BY DEF TrackInv, TrackTyped, RowsTyped
<1>2. /\ stage' = [k \in ArrStages |-> stage'[k]] /\ stage'["localise"] = stage["localise"] /\ stage'["extract"] = stage["extract"]
      /\ stage'["validate"] = stage["validate"] \/ (stage["validate"] = Idle /\ stage'["validate"] = [at |-> "queued"])
  BY DEF TrackInv, TrackTyped, StageTyped, QueuedStage
<1>3. TrackTyped'
  <2>1. ChapterTyped' /\ FactsTyped' /\ CallTyped'
    BY DEF TrackInv, TrackTyped, ChapterTyped, FactsTyped, CallTyped
  <2>2. RowsTyped'
    BY DEF TrackInv, TrackTyped, RowsTyped
  <2>3. StageTyped'
    BY <1>2 DEF TrackInv, TrackTyped, StageTyped
  <2> QED
    BY <2>1, <2>2, <2>3 DEF TrackTyped
<1>4. rows[r] # NoRow /\ cand # NoRow /\ cand.status # "absent" /\ rows[r].status # "absent"
  BY DEF ArrCandidates, NoRow, Decided
<1>5. ReadFromConfirmed'
  BY <1>1, <1>4 DEF TrackInv, TrackFlow, ReadFromConfirmed
<1>6. CheckpointHolds' /\ ExtractedIsValidated' /\ ConfirmedRead' /\ InOrder'
  <2>1. stage'["validate"].at = "running" => stage'["validate"] = stage["validate"] /\ stage["validate"].at = "running"
    BY <1>2
  <2>2. stage'["validate"] = Idle => stage["validate"] = Idle
    BY <1>2
  <2> QED
    BY <1>2, <2>1, <2>2 DEF TrackInv, TrackFlow, CheckpointHolds, ExtractedIsValidated, ConfirmedRead, InOrder, Own, Decidable
<1>7. FactsRestOnDecisions'
  <2> SUFFICES ASSUME NEW l \in Lines, facts[l] # NoFact
               PROVE  /\ rows'[facts[l].row] # NoRow /\ rows'[facts[l].row].status \in Final /\ rows'[facts[l].row].published
                      /\ rows'[facts[l].row].line = l /\ rows'[facts[l].row].value = facts[l].value
    BY DEF FactsRestOnDecisions
  <2>1. facts[l].row \in Rows
    BY DEF TrackInv, TrackTyped, FactsTyped
  <2>2. /\ rows[facts[l].row] # NoRow /\ rows[facts[l].row].status \in Final /\ rows[facts[l].row].published
        /\ rows[facts[l].row].line = l /\ rows[facts[l].row].value = facts[l].value
    BY DEF TrackInv, FactsRestOnDecisions
  <2>3. facts[l].row # r
    BY <2>2 DEF Final
  <2> QED
    BY <1>1, <2>1, <2>2, <2>3
<1>8. TrackFindings'
  <2>1. CASE unseen'
    BY <2>1 DEF TrackFindings, FoundAsIs, LeftAsIs
  <2>2. CASE ~unseen'
    <3>1. Disputed' = Disputed
      <4>1. Standing' = Standing
        BY <1>1, <1>4, <2>2 DEF Standing
      <4>2. \A q \in Rows : rows'[q].value = rows[q].value
        BY <1>1, <2>2
      <4> QED
        BY <4>1, <4>2 DEF Disputed, IdentityFails, Standing
    <3>2. ~unseen /\ stage'["validate"] = stage["validate"]
      BY <2>2
    <3> QED
      BY <2>2, <3>1, <3>2 DEF TrackInv, TrackFindings, FoundAsIs, LeftAsIs
  <2> QED
    BY <2>1, <2>2
<1> QED
  BY <1>3, <1>5, <1>6, <1>7, <1>8 DEF TrackInv, TrackFlow

LEMMA DecideKeeps ==
  ASSUME TrackInv, NEW r \in Rows, NEW outcome \in Decided, NEW line \in Lines, NEW value \in Figures, Decide(r, outcome, line, value)
  PROVE  TrackInv'
<1> DEFINE cand == [rows[r] EXCEPT !.status = outcome, !.line = line, !.value = value]
<1>1. rows[r] \in ArrCandidates /\ rows[r].status = "pending" /\ rows \in [Rows -> ArrCandidates \cup {NoRow}]
  BY DEF Decide, TrackInv, TrackTyped, RowsTyped, NoRow
<1>2. cand \in ArrCandidates /\ cand.reading = rows[r].reading /\ cand.status = outcome /\ cand.value = value
  BY <1>1 DEF ArrCandidates
<1>3. rows' = [q \in Rows |-> IF q = r THEN cand ELSE rows[q]]
  BY <1>1 DEF Decide
<1>4. /\ UNCHANGED <<arrState, chapter, blocking, facts, call, confirmed, beside>>
      /\ unseen' = (unseen \/ outcome # "approved") /\ (outcome = "approved" => value = rows[r].value)
      /\ stage' = IF outcome = "approved" THEN stage ELSE QueuedStage(stage, "validate")
  BY DEF Decide
<1>5. calls' \in 0 .. MaxCalls
  BY ChapterFields, TrackAssumption DEF Decide, TrackCall, TrackAssumption
<1> HIDE DEF cand
<1>6. unseen' \/ (~unseen /\ cand.status # "rejected" /\ rows[r].status # "rejected" /\ cand.value = rows[r].value)
  <2>1. CASE outcome = "approved"
    BY <1>1, <1>2, <1>4, <2>1
  <2>2. CASE outcome # "approved"
    BY <1>4, <2>2
  <2> QED
    BY <2>1, <2>2
<1>7. stage' = stage \/ (unseen' /\ stage' = QueuedStage(stage, "validate"))
  BY <1>4
<1> QED
  BY <1>1, <1>2, <1>3, <1>4, <1>5, <1>6, <1>7, RowCallKeeps

LEMMA UndoKeeps == ASSUME TrackInv, NEW r \in Rows, Undo(r) PROVE TrackInv'
<1> DEFINE cand == [rows[r] EXCEPT !.status = "pending", !.line = rows[r].read.line, !.value = rows[r].read.value]
<1>1. rows[r] \in ArrCandidates /\ ~rows[r].published /\ rows \in [Rows -> ArrCandidates \cup {NoRow}]
  BY DEF Undo, Undoable, Decided, TrackInv, TrackTyped, RowsTyped, NoRow
<1>2. cand \in ArrCandidates /\ cand.reading = rows[r].reading
  BY <1>1 DEF ArrCandidates, Figured
<1>3. rows' = [q \in Rows |-> IF q = r THEN cand ELSE rows[q]]
  BY <1>1 DEF Undo
<1>4. UNCHANGED <<arrState, chapter, blocking, facts, stage, call, confirmed, beside>> /\ unseen'
  BY DEF Undo
<1>5. calls' \in 0 .. MaxCalls
  BY ChapterFields, TrackAssumption DEF Undo, TrackCall, TrackAssumption
<1> HIDE DEF cand
<1> QED
  BY <1>1, <1>2, <1>3, <1>4, <1>5, RowCallKeeps

LEMMA PublishArrKeeps == ASSUME TrackInv, PublishArr PROVE TrackInv'
<1> USE StageNames
<1>1. /\ UNCHANGED <<chapter, blocking, stage, calls, confirmed, beside, unseen>>
      /\ arrState' = "published" \/ arrState' = arrState
      /\ call' = NoCall /\ call # NoCall /\ call.does = "publish"
  BY DEF PublishArr, MayPublish, Flushed, NoCall
<1>2. \A r \in Rows : rows'[r] = IF r \in Publishable THEN [rows[r] EXCEPT !.published = TRUE] ELSE rows[r]
  BY DEF PublishArr
<1>3. \A r \in Publishable : r \in Rows /\ rows[r] \in ArrCandidates /\ rows[r].status \in Final /\ ~rows[r].published
  BY DEF Publishable, Final, NoRow, TrackInv, TrackTyped, RowsTyped
<1>4. \A r \in Publishable : /\ rows'[r] \in ArrCandidates /\ rows'[r].published
                             /\ rows'[r].status = rows[r].status /\ rows'[r].line = rows[r].line
                             /\ rows'[r].value = rows[r].value /\ rows'[r].reading = rows[r].reading
  BY <1>2, <1>3 DEF ArrCandidates
<1>5. \A r \in Rows \ Publishable : rows'[r] = rows[r]
  BY <1>2
<1>6. \A r \in Rows : rows'[r] \in ArrCandidates \cup {NoRow}
  BY <1>4, <1>5 DEF TrackInv, TrackTyped, RowsTyped
<1>7. \A l \in Lines :
          \/ \E r \in Publishable : rows[r].line = l /\ facts'[l] = [row |-> r, value |-> rows[r].value]
          \/ facts'[l] = facts[l]
  <2> SUFFICES ASSUME NEW l \in Lines, \E r \in Publishable : rows[r].line = l
               PROVE  \E r \in Publishable : rows[r].line = l /\ facts'[l] = [row |-> r, value |-> rows[r].value]
    BY DEF PublishArr
  <2> DEFINE chosen == CHOOSE q \in Publishable : rows[q].line = l
  <2>1. chosen \in Publishable /\ rows[chosen].line = l
    OBVIOUS
  <2>2. facts'[l] = [row |-> chosen, value |-> rows[chosen].value]
    BY DEF PublishArr
  <2> HIDE DEF chosen
  <2> QED
    BY <2>1, <2>2
<1>8. TrackTyped'
  <2>1. ChapterTyped'
    <3>1. arrState' \in ArrStates /\ arrState' # "none"
      BY <1>1, ChapterFields, CallFields DEF ArrStates
    <3> QED
      BY <1>1, <3>1, ChapterFields, CallFields DEF ChapterTyped
  <2>2. RowsTyped'
    <3>1. rows' = [r \in Rows |-> rows'[r]]
      BY DEF PublishArr
    <3> QED
      BY <1>6, <3>1 DEF RowsTyped
  <2>3. FactsTyped'
    <3>1. facts' = [l \in Lines |-> facts'[l]]
      BY DEF PublishArr
    <3>2. \A l \in Lines : facts'[l] \in [row : Rows, value : Figures] \cup {NoFact}
      <4> SUFFICES ASSUME NEW l \in Lines PROVE facts'[l] \in [row : Rows, value : Figures] \cup {NoFact}
        OBVIOUS
      <4>1. CASE facts'[l] = facts[l]
        BY <4>1 DEF TrackInv, TrackTyped, FactsTyped
      <4>2. CASE facts'[l] # facts[l]
        <5>1. PICK r \in Publishable : facts'[l] = [row |-> r, value |-> rows[r].value]
          BY <1>7, <4>2
        <5>2. r \in Rows /\ rows[r].value \in Figures
          BY <1>3, <5>1 DEF ArrCandidates
        <5> QED
          BY <5>1, <5>2
      <4> QED
        BY <4>1, <4>2
    <3> QED
      BY <3>1, <3>2 DEF FactsTyped
  <2>4. StageTyped' /\ CallTyped'
    BY <1>1 DEF TrackInv, TrackTyped, StageTyped, CallTyped
  <2> QED
    BY <2>1, <2>2, <2>3, <2>4 DEF TrackTyped
<1>9. ReadFromConfirmed'
  <2> SUFFICES ASSUME NEW r \in Rows, rows'[r] # NoRow PROVE rows'[r].reading \in confirmed
    BY <1>1 DEF ReadFromConfirmed
  <2>1. rows[r] # NoRow /\ rows'[r].reading = rows[r].reading
    BY <1>3, <1>4, <1>5 DEF NoRow, Final
  <2> QED
    BY <2>1 DEF TrackInv, TrackFlow, ReadFromConfirmed
<1>10. CheckpointHolds' /\ ExtractedIsValidated' /\ ConfirmedRead' /\ InOrder'
  <2>1. Own => chapter.reading \in confirmed /\ arrState \in {"awaiting_review", "published"} /\ stage["extract"] = Idle
    BY <1>1 DEF TrackInv, TrackFlow, ConfirmedRead, InOrder, Decidable
  <2>2. (Own' <=> Own) /\ call'.does = "none" /\ chapter' = chapter /\ stage' = stage /\ confirmed' = confirmed
    BY <1>1 DEF Own, NoCall
  <2>3. CheckpointHolds' /\ ExtractedIsValidated'
    BY <1>1, <2>1 DEF TrackInv, TrackFlow, CheckpointHolds, ExtractedIsValidated, Own
  <2>4. ConfirmedRead'
    BY <2>2 DEF TrackInv, TrackFlow, ConfirmedRead
  <2>5. InOrder'
    BY <1>1, <2>1, <2>2 DEF TrackInv, TrackFlow, InOrder, Idle
  <2> QED
    BY <2>3, <2>4, <2>5
<1>11. FactsRestOnDecisions'
  <2> SUFFICES ASSUME NEW l \in Lines, facts'[l] # NoFact
               PROVE  /\ rows'[facts'[l].row] # NoRow /\ rows'[facts'[l].row].status \in Final /\ rows'[facts'[l].row].published
                      /\ rows'[facts'[l].row].line = l /\ rows'[facts'[l].row].value = facts'[l].value
    BY DEF FactsRestOnDecisions
  <2>1. CASE facts'[l] = facts[l]
    <3>1. /\ rows[facts[l].row] # NoRow /\ rows[facts[l].row].status \in Final /\ rows[facts[l].row].published
          /\ rows[facts[l].row].line = l /\ rows[facts[l].row].value = facts[l].value /\ facts[l].row \in Rows
      BY <2>1 DEF TrackInv, FactsRestOnDecisions, TrackTyped, FactsTyped
    <3>2. rows'[facts[l].row] = rows[facts[l].row]
      BY <1>3, <1>5, <3>1
    <3> QED
      BY <2>1, <3>1, <3>2
  <2>2. CASE facts'[l] # facts[l]
    <3>1. PICK r \in Publishable : rows[r].line = l /\ facts'[l] = [row |-> r, value |-> rows[r].value]
      BY <1>7, <2>2
    <3>2. facts'[l].row = r /\ facts'[l].value = rows[r].value
      BY <3>1
    <3>3. rows'[r] # NoRow
      BY <1>3, <1>4, <3>1 DEF NoRow, Final
    <3> QED
      BY <1>3, <1>4, <3>1, <3>2, <3>3
  <2> QED
    BY <2>1, <2>2
<1>12. TrackFindings'
  <2>1. \A r \in Rows : rows'[r].status = rows[r].status /\ rows'[r].value = rows[r].value
    BY <1>4, <1>5
  <2>2. Standing' = Standing
    BY <2>1 DEF Standing
  <2>3. Disputed' = Disputed
    BY <2>1, <2>2 DEF Disputed, IdentityFails, Standing
  <2> QED
    BY <1>1, <2>3 DEF TrackInv, TrackFindings, FoundAsIs, LeftAsIs
<1> QED
  BY <1>8, <1>9, <1>10, <1>11, <1>12 DEF TrackInv, TrackFlow

\* A re-reading replaces the rows that are pending, puts new ones where none is left, and touches no other.
LEMMA ExtractWriteRows ==
  ASSUME TrackInv, ExtractWrite
  PROVE  /\ rows' = [r \in Rows |-> rows'[r]]
         /\ \A r \in Rows :
               \/ rows'[r] = NoRow
               \/ rows'[r] = rows[r]
               \/ rows'[r] \in ArrCandidates /\ rows'[r].reading = stage["extract"].reading
         /\ \A r \in Rows : rows[r].status \in Final => rows'[r] = rows[r]
<1>1. stage["extract"].at = "running" /\ stage["extract"].reading \in 1 .. MaxReadings
  BY DEF ExtractWrite, TrackInv, TrackFlow, ConfirmedRead
<1> DEFINE kept == [r \in Rows |-> IF r \in Replaced THEN NoRow ELSE rows[r]]
           free == {r \in Rows : kept[r] = NoRow}
<1>2. PICK read \in SUBSET Lines : \E readings \in [read -> Figures] :
          /\ Cardinality(free) >= Cardinality(Inserted(kept, readings))
          /\ \E slot \in [Inserted(kept, readings) -> free] :
                /\ \A l, m \in Inserted(kept, readings) : l # m => slot[l] # slot[m]
                /\ rows' = [r \in Rows |->
                      IF \E l \in Inserted(kept, readings) : slot[l] = r
                      THEN LET l == CHOOSE l \in Inserted(kept, readings) : slot[l] = r
                           IN [status |-> "pending", line |-> l, value |-> readings[l], published |-> FALSE,
                               read |-> [line |-> l, value |-> readings[l]], reading |-> stage["extract"].reading]
                      ELSE kept[r]]
  BY DEF ExtractWrite
<1> HIDE DEF kept
<1>3. PICK readings \in [read -> Figures] :
          \E slot \in [Inserted(kept, readings) -> free] :
                rows' = [r \in Rows |->
                      IF \E l \in Inserted(kept, readings) : slot[l] = r
                      THEN LET l == CHOOSE l \in Inserted(kept, readings) : slot[l] = r
                           IN [status |-> "pending", line |-> l, value |-> readings[l], published |-> FALSE,
                               read |-> [line |-> l, value |-> readings[l]], reading |-> stage["extract"].reading]
                      ELSE kept[r]]
  BY <1>2
<1> DEFINE new == Inserted(kept, readings)
           Read(l) == [status |-> "pending", line |-> l, value |-> readings[l], published |-> FALSE,
                       read |-> [line |-> l, value |-> readings[l]], reading |-> stage["extract"].reading]
<1>4. PICK slot \in [new -> free] :
          rows' = [r \in Rows |-> IF \E l \in new : slot[l] = r THEN Read(CHOOSE l \in new : slot[l] = r) ELSE kept[r]]
  BY <1>3
<1>5. new \subseteq read
  BY <1>3 DEF Inserted
<1>6. \A l \in new : Read(l) \in ArrCandidates /\ Read(l).reading = stage["extract"].reading
  <2> SUFFICES ASSUME NEW l \in new PROVE Read(l) \in ArrCandidates /\ Read(l).reading = stage["extract"].reading
    OBVIOUS
  <2>1. l \in Lines /\ readings[l] \in Figures
    BY <1>5
  <2> QED
    BY <1>1, <2>1 DEF ArrCandidates, Figured
<1>7. \A r \in Rows : kept[r] = NoRow \/ kept[r] = rows[r]
  BY DEF kept
<1>8. \A r \in Rows : rows[r].status \in Final => kept[r] = rows[r] /\ kept[r] # NoRow
  BY DEF kept, Replaced, Final, NoRow
<1> HIDE DEF Read, new, kept
<1>9. \A r \in Rows : (\E l \in new : rows'[r] = Read(l) /\ r \in free) \/ rows'[r] = kept[r]
  <2> SUFFICES ASSUME NEW r \in Rows, \E l \in new : slot[l] = r PROVE \E l \in new : rows'[r] = Read(l) /\ r \in free
    BY <1>4
  <2> DEFINE chosen == CHOOSE l \in new : slot[l] = r
  <2>1. chosen \in new /\ slot[chosen] = r
    OBVIOUS
  <2>2. rows'[r] = Read(chosen)
    BY <1>4
  <2> HIDE DEF chosen
  <2> QED
    BY <1>4, <2>1, <2>2
<1>10. \A r \in Rows : rows[r].status \in Final => rows'[r] = rows[r]
  BY <1>8, <1>9
<1>11. \A r \in Rows : \/ rows'[r] = NoRow \/ rows'[r] = rows[r]
                       \/ rows'[r] \in ArrCandidates /\ rows'[r].reading = stage["extract"].reading
  BY <1>6, <1>7, <1>9
<1>12. rows' = [r \in Rows |-> rows'[r]]
  BY <1>4
<1> QED
  BY <1>10, <1>11, <1>12

LEMMA ExtractWriteKeeps == ASSUME TrackInv, ExtractWrite PROVE TrackInv'
<1> USE StageNames
<1>1. /\ stage["extract"].at = "running" /\ arrState' = "extracted" /\ unseen'
      /\ UNCHANGED <<chapter, blocking, facts, call, calls, confirmed, beside>>
  BY DEF ExtractWrite
<1>2. /\ stage' = [k \in ArrStages |-> stage'[k]] /\ stage'["localise"] = stage["localise"] /\ stage'["extract"] = Idle
      /\ stage'["validate"] = IF stage["validate"] = Idle THEN [at |-> "queued"] ELSE stage["validate"]
  BY DEF ExtractWrite, Chained, QueuedStage, TrackInv, TrackTyped, StageTyped
<1>3. /\ stage["extract"].reading \in confirmed /\ (Own => chapter.reading = stage["extract"].reading)
      /\ chapter.reading # 0
  BY <1>1 DEF TrackInv, TrackFlow, ConfirmedRead
<1>o. /\ Own' <=> Own
      /\ Own => stage["validate"].at # "running" /\ call.does \notin {"confirm", "publish"}
  BY <1>1 DEF TrackInv, TrackFlow, InOrder, Own, Decidable
<1>4. TrackTyped'
  <2>1. ChapterTyped'
    <3>1. arrState' \in ArrStates
      BY <1>1 DEF ArrStates
    <3> QED
      BY <1>1, <1>3, <3>1, ChapterFields DEF ChapterTyped
  <2>2. RowsTyped'
    BY ExtractWriteRows DEF TrackInv, TrackTyped, RowsTyped
  <2>3. StageTyped'
    BY <1>1, <1>2 DEF TrackInv, TrackTyped, StageTyped
  <2>4. CallTyped'
    BY <1>1 DEF TrackInv, TrackTyped, CallTyped
  <2> QED
    BY <1>1, <2>1, <2>2, <2>3, <2>4 DEF TrackInv, TrackTyped, FactsTyped
<1>5. ReadFromConfirmed'
  <2> SUFFICES ASSUME NEW r \in Rows, rows'[r] # NoRow PROVE rows'[r].reading \in confirmed
    BY <1>1 DEF ReadFromConfirmed
  <2> QED
    BY <1>3, ExtractWriteRows DEF TrackInv, TrackFlow, ReadFromConfirmed
<1>6. CheckpointHolds' /\ ConfirmedRead' /\ ExtractedIsValidated'
  <2>1. CheckpointHolds' /\ ExtractedIsValidated'
    BY <1>1, <1>2, <1>3 DEF CheckpointHolds, ExtractedIsValidated, Own, Idle
  <2>2. ConfirmedRead'
    BY <1>1, <1>2, <1>o DEF TrackInv, TrackFlow, ConfirmedRead, Idle
  <2> QED
    BY <2>1, <2>2
<1>7. InOrder'
  BY <1>1, <1>2, <1>o DEF InOrder, Idle
<1>8. FactsRestOnDecisions'
  <2> SUFFICES ASSUME NEW l \in Lines, facts[l] # NoFact
               PROVE  /\ rows'[facts[l].row] # NoRow /\ rows'[facts[l].row].status \in Final /\ rows'[facts[l].row].published
                      /\ rows'[facts[l].row].line = l /\ rows'[facts[l].row].value = facts[l].value
    BY <1>1 DEF FactsRestOnDecisions
  <2>1. /\ rows[facts[l].row] # NoRow /\ rows[facts[l].row].status \in Final /\ rows[facts[l].row].published
        /\ rows[facts[l].row].line = l /\ rows[facts[l].row].value = facts[l].value /\ facts[l].row \in Rows
    BY DEF TrackInv, FactsRestOnDecisions, TrackTyped, FactsTyped
  <2> QED
    BY <2>1, ExtractWriteRows
<1>9. TrackFindings'
  BY <1>1 DEF TrackFindings, FoundAsIs, LeftAsIs
<1> QED
  BY <1>4, <1>5, <1>6, <1>7, <1>8, <1>9 DEF TrackInv, TrackFlow

LEMMA UnchangedTrack ==
  ASSUME TrackInv, UNCHANGED <<arrState, chapter, rows, blocking, facts, stage, call, calls, confirmed, beside, unseen>>
  PROVE  TrackInv'
<1>1. TrackTyped'
  BY DEF TrackInv, TrackTyped, ChapterTyped, RowsTyped, FactsTyped, StageTyped, CallTyped
<1>2. CheckpointHolds' /\ ExtractedIsValidated' /\ ConfirmedRead' /\ InOrder'
  BY DEF TrackInv, TrackFlow, CheckpointHolds, ExtractedIsValidated, ConfirmedRead, InOrder, Own, Decidable
<1>3. TrackFindings'
  BY SameDispute DEF TrackInv, TrackFindings, FoundAsIs, LeftAsIs
<1> QED
  BY <1>1, <1>2, <1>3, QuietTrack

LEMMA RefusedKeeps == ASSUME TrackInv, PublishRefusedByIndex PROVE TrackInv'
<1>1. /\ UNCHANGED <<arrState, chapter, rows, blocking, facts, stage, calls, confirmed, beside, unseen>> /\ call' = NoCall
      /\ calls \in 0 .. MaxCalls
  BY ChapterFields DEF PublishRefusedByIndex
<1> QED
  BY <1>1, CallMoves DEF CallTyped, NoCall

LEMMA StepKeepsTrack == TrackInv /\ [TrackNext]_trackVars => TrackInv'
<1> SUFFICES ASSUME TrackInv, [TrackNext]_trackVars PROVE TrackInv'
  OBVIOUS
<1>1. CASE \E r \in Rows : Undo(r) \/ \E o \in Decided, l \in Lines, v \in Figures : Decide(r, o, l, v)
  BY <1>1, UndoKeeps, DecideKeeps
<1>2. CASE UpdateChapter \/ ConfirmChapters
  BY <1>2, UpdateChapterKeeps, ConfirmChaptersKeeps
<1>3. CASE PublishArr
  BY <1>3, PublishArrKeeps
<1>4. CASE LocaliseWrite \/ ExtractWrite \/ ValidateWrite
  BY <1>4, LocaliseWriteKeeps, ExtractWriteKeeps, ValidateWriteKeeps
<1>7. CASE AskUpdate \/ AskConfirm \/ AskPublish \/ CallFails
  BY <1>7, CallStepKeeps
<1>5. CASE StartReading \/ LocaliseRead \/ LocaliseLoad \/ ExtractRead \/ ValidateRead \/ ValidateRolledBack \/ (\E k \in ArrStages : StageLost(k))
  BY <1>5, StageStepKeeps
<1>6. CASE PublishRefusedByIndex \/ UNCHANGED trackVars
  BY <1>6, RefusedKeeps, UnchangedTrack DEF trackVars
<1> QED
  BY <1>1, <1>2, <1>3, <1>4, <1>5, <1>6, <1>7 DEF TrackNext

\* Rows, facts, chapter and stages of the track stay well typed, for any order (ArrCandidate, ArrFact).
THEOREM TrackTypeCorrect == TrackSpec => []TrackTypeOK
<1>1. TrackInv => TrackTypeOK
  <2> SUFFICES ASSUME TrackInv PROVE TrackTypeOK
    OBVIOUS
  <2>1. \A r \in Rows : rows[r] # NoRow => rows[r] \in ArrCandidates
    BY DEF TrackInv, TrackTyped, RowsTyped
  <2>2. \A l \in Lines : facts[l] # NoFact => facts[l].row \in Rows /\ facts[l].value \in Figures
    BY DEF TrackInv, TrackTyped, FactsTyped
  <2>3. \A k \in ArrStages : stage[k].at \in {"idle", "queued", "running", "writing"}
    BY DEF TrackInv, TrackTyped, StageTyped, Idle
  <2>4. call # NoCall => call.does \in {"update", "confirm", "publish"} /\ call.state \in PastCheckpoint \cup {"chapters_proposed"}
    BY CallFields DEF PastCheckpoint, ArrStates
  <2> QED
    BY <2>1, <2>2, <2>3, <2>4, ChapterFields DEF TrackTypeOK, ArrCandidates, Statuses
<1> QED
  BY <1>1, InitEstablishesTrack, StepKeepsTrack, PTL DEF TrackSpec

\* Whatever is committed beside the stages, every candidate was read from chapters someone
\* confirmed; and the order is past the checkpoint, or rests as extracted, only on confirmed chapters
\* and on its way to the reviewers, but for the chapters of a localisation that committed beside a
\* confirmation, a publication or a running stage (stages/arr.py, arr/service.py).
THEOREM TrackKeepsCheckpoints == TrackSpec => []TrackCheckpoints
<1>1. TrackInv => TrackCheckpoints
  BY DEF TrackInv, TrackFlow, TrackCheckpoints
<1> QED
  BY <1>1, InitEstablishesTrack, StepKeepsTrack, PTL DEF TrackSpec

\* Every published fact is the row someone approved or corrected, as they decided it, and what
\* blocks a publication is what the standing rows show (services/arr_review.py).
THEOREM TrackReviewStands == TrackSpec => []ReviewStands
<1>1. TrackInv => ReviewStands
  <2> SUFFICES ASSUME TrackInv PROVE FindingsAreCurrent
    BY DEF TrackInv, ReviewStands
  <2> SUFFICES ASSUME stage["validate"] = Idle, ~unseen
               PROVE  blocking = \E r, o \in Rows : /\ {rows[r].status, rows[o].status} \cap {"absent", "rejected"} = {}
                                                    /\ rows[r].value # rows[o].value
    BY DEF FindingsAreCurrent
  <2>1. blocking = Disputed
    BY DEF TrackInv, TrackFindings, LeftAsIs
  <2>2. Disputed <=> \E r, o \in Rows : /\ {rows[r].status, rows[o].status} \cap {"absent", "rejected"} = {}
                                        /\ rows[r].value # rows[o].value
    BY DEF Disputed, IdentityFails, Standing
  <2> QED
    BY <2>1, <2>2 DEF Disputed, IdentityFails
<1> QED
  BY <1>1, InitEstablishesTrack, StepKeepsTrack, PTL DEF TrackSpec

-----------------------------------------------------------------------------
(* The library and its acquisitions, for any slots, documents and bounds.  *)
(* Even the type of attempts needs the keys: a job that has not begun is   *)
(* the next attempt of its slot (KeysInTurn), so that a count never passes *)
(* the last key.  That a failed download can be asked for again is that    *)
(* nothing ended under a key the slot has not reached (NoneBeganBeyond).   *)
(* That an acquired slot keeps its source is said of what the open         *)
(* transaction will write (OpenSound): a source only to a slot it did not  *)
(* load as acquired.                                                       *)

Entries == [status : {"absent", "expected", "located", "acquired", "failed"}, url : Documents \cup {None},
            source : Documents \cup {None}, attempts : 0 .. MaxKeys]
Orders == [licensees : SUBSET Licensees, primary : Licensees \cup {None}, year : Years]
Fetchers == [at : {"none", "queued", "linking", "fetching"} \cup Over, url : Documents \cup {None}]
Columns == [new : BOOLEAN, status : {"absent", "expected", "located", "acquired", "failed"},
            url : Documents \cup {None}, source : Documents \cup {None}]
Opens == [writes : [Slots -> Columns], order : Documents \cup {None}, held : SUBSET Slots]

LibraryTyped ==
    /\ entry \in [Slots -> Entries] /\ source \in [Documents -> Orders] /\ fetcher \in [Slots -> [Keys -> Fetchers]]
    /\ open \in Opens
    /\ \A d \in Documents : Registered(d) => source[d].primary \in source[d].licensees

\* A slot that has a source has one that is registered, and one without does not say it was acquired.
SourcesHeld == \A s \in Slots :
    /\ entry[s].source # None => Registered(entry[s].source)
    /\ entry[s].status = "acquired" => entry[s].source # None

\* The jobs of a slot: one key after the other, each for an attempt, the last one perhaps not begun.
KeysInTurn == \A s \in Slots, k \in Keys :
    /\ fetcher[s][k].at = "none" => fetcher[s][k] = NoFetcher
    /\ fetcher[s][k].at = "queued" => k = entry[s].attempts + 1 /\ entry[s].url # None
    /\ fetcher[s][k].at = "fetching" => fetcher[s][k].url \in Documents
    /\ k > entry[s].attempts => fetcher[s][k].at # "fetching"

\* As long as a slot has no source, what ended under a key that is not used up did not begin.
NoneBeganBeyond == \A s \in Slots, k \in Keys :
    entry[s].source = None /\ k > entry[s].attempts => fetcher[s][k].at \notin {"succeeded", "failed"}

\* What the open transaction will write: a registered source, and only to a slot it did not load as acquired.
OpenSound == \A s \in Slots :
    /\ open.writes[s].source # None => Registered(open.writes[s].source) /\ s \notin open.held
    /\ open.writes[s].status = "acquired" => open.writes[s].source # None \/ entry[s].source # None

\* The open transaction is that of the one job that links, if one does.
OneLinks == \A s \in Slots, k \in Keys : fetcher[s][k].at = "linking" =>
    /\ open.order \in Documents /\ Registered(open.order)
    /\ open.writes[s].source # None \/ entry[s].source # None
    /\ \A t \in Slots, j \in Keys : fetcher[t][j].at = "linking" => t = s /\ j = k

LibraryInv == LibraryTyped /\ SourcesHeld /\ KeysInTurn /\ NoneBeganBeyond /\ OpenSound /\ OneLinks

\* What reconciling makes of the entries: a slot that has a source keeps it.
Grown(old, new) == \A s \in Slots :
    /\ old[s].source # None => new[s].source = old[s].source
    /\ new[s].source # None => new[s].source = old[s].source \/ Registered(new[s].source)
    /\ new[s].status = "acquired" => old[s].status = "acquired" \/ new[s].source # None

\* What a transaction may make of the entries it loaded.
Plan(new) == \A s \in Slots :
    /\ new[s].source # entry[s].source /\ new[s].source # None =>
          Registered(new[s].source) /\ entry[s].status # "acquired"
    /\ new[s].status = "acquired" => entry[s].status = "acquired" \/ new[s].source # None

\* Sources that are registered stay so, and their rows are typed.
Registers == /\ source' \in [Documents -> Orders]
             /\ \A d \in Documents : /\ Registered(d) => Registered(d)'
                                     /\ Registered(d)' => source'[d].primary \in source'[d].licensees

LEMMA ClosedIsTyped == Untouched \in Columns /\ Closed \in Opens
<1>1. Untouched \in Columns
  BY DEF Untouched, Columns
<1> QED
  BY <1>1 DEF Closed, Opens

LEMMA ClosedIsSound == ASSUME NEW s \in Slots PROVE Closed.writes[s] = Untouched /\ Untouched.source = None /\ Untouched.status = "absent" /\ Closed.order = None
BY DEF Closed, Untouched

LEMMA InitEstablishesLibrary == LibraryInit => LibraryInv
<1> SUFFICES ASSUME LibraryInit PROVE LibraryInv
  OBVIOUS
<1> USE LibraryAssumption DEF LibraryAssumption
<1>1. NoEntry \in Entries
  BY DEF NoEntry, Entries
<1>2. NoSource \in Orders
  BY DEF NoSource, Orders, Years
<1>3. NoFetcher \in Fetchers
  BY DEF NoFetcher, Fetchers
<1>4. LibraryTyped
  BY <1>1, <1>2, <1>3, ClosedIsTyped DEF LibraryInit, LibraryTyped, Registered
<1>5. SourcesHeld
  BY DEF LibraryInit, SourcesHeld, NoEntry
<1>6. KeysInTurn /\ NoneBeganBeyond /\ OneLinks
  BY DEF LibraryInit, KeysInTurn, NoneBeganBeyond, OneLinks, NoFetcher
<1>7. OpenSound
  BY ClosedIsSound DEF LibraryInit, OpenSound
<1> QED
  BY <1>4, <1>5, <1>6, <1>7 DEF LibraryInv

LEMMA HoldingEntry ==
  ASSUME NEW e \in Entries, NEW d \in Documents
  PROVE  Holding(e, d) \in Entries /\ Holding(e, d).source = d
<1> DEFINE url == IF e = NoEntry THEN d ELSE e.url
<1>1. url \in Documents \cup {None}
  BY DEF Entries
<1>2. Holding(e, d) = [e EXCEPT !.status = "acquired", !.source = d, !.url = url]
  BY DEF Holding
<1> HIDE DEF url
<1> QED
  BY <1>1, <1>2 DEF Entries

LEMMA LinkedGrows ==
  ASSUME LibraryInv, NEW old \in [Slots -> Entries], NEW d \in Documents
  PROVE  Linked(old, d) \in [Slots -> Entries] /\ Grown(old, Linked(old, d))
<1> DEFINE slot == <<source[d].primary, source[d].year>>
<1>1. CASE Classified(d) /\ old[slot].source = None
  <2>1. slot \in Slots /\ Registered(d)
    BY <1>1 DEF LibraryInv, LibraryTyped, Orders, Slots, Classified, Years
  <2>2. Linked(old, d) = [old EXCEPT ![slot] = Holding(old[slot], d)]
    BY <1>1 DEF Linked, Takes
  <2>3. old[slot].source = None /\ Registered(d) /\ d # None
    BY <1>1, <2>1, LibraryAssumption DEF LibraryAssumption
  <2> HIDE DEF slot
  <2>4. Holding(old[slot], d) \in Entries /\ Holding(old[slot], d).source = d
    BY <2>1, HoldingEntry
  <2>5. \A s \in Slots : Linked(old, d)[s] = IF s = slot THEN Holding(old[slot], d) ELSE old[s]
    BY <2>2
  <2> QED
    BY <2>1, <2>2, <2>3, <2>4, <2>5 DEF Grown
<1>2. CASE ~(Classified(d) /\ old[slot].source = None)
  <2>1. Linked(old, d) = old
    BY <1>2 DEF Linked, Takes
  <2> QED
    BY <2>1 DEF Grown
<1> QED
  BY <1>1, <1>2

LEMMA ReconciledGrows ==
  ASSUME LibraryInv, NEW old \in [Slots -> Entries], NEW new \in Reconciled(old)
  PROVE  new \in [Slots -> Entries] /\ Grown(old, new)
<1>1. PICK p \in Documents \X Documents : new = Linked(Linked(old, p[1]), p[2])
  BY DEF Reconciled
<1> DEFINE mid == Linked(old, p[1])
<1>2. mid \in [Slots -> Entries] /\ Grown(old, mid)
  BY LinkedGrows
<1> HIDE DEF mid
<1>3. Linked(mid, p[2]) \in [Slots -> Entries] /\ Grown(mid, Linked(mid, p[2]))
  BY <1>2, LinkedGrows
<1>4. new = Linked(mid, p[2])
  BY <1>1 DEF mid
<1> QED
  BY <1>2, <1>3, <1>4 DEF Grown

\* Reconciling is a plan: an acquired slot has a source, which it keeps.
LEMMA GrownIsPlan == ASSUME LibraryInv, NEW new, Grown(entry, new) PROVE Plan(new)
BY DEF LibraryInv, SourcesHeld, Grown, Plan

\* A transaction that has loaded the slots and decided on a plan.
LEMMA OpenedKeeps ==
  ASSUME LibraryInv, NEW new \in [Slots -> Entries], Plan(new), NEW d \in Documents \cup {None},
         open = Closed, open' = Opened(new, d), UNCHANGED <<entry, source>>,
         fetcher' = fetcher \/
            \E s \in Slots, k \in Keys :
               /\ fetcher' = [fetcher EXCEPT ![s] = [fetcher[s] EXCEPT ![k] = [fetcher[s][k] EXCEPT !.at = "linking"]]]
               /\ fetcher[s][k].at = "queued" /\ d \in Documents /\ Registered(d) /\ new[s].source # None
  PROVE  LibraryInv'
<1> USE DEF Keys
<1>t. /\ entry \in [Slots -> Entries] /\ source \in [Documents -> Orders] /\ fetcher \in [Slots -> [Keys -> Fetchers]]
  BY DEF LibraryInv, LibraryTyped
<1>n. \A s \in Slots, k \in Keys : fetcher[s][k].at # "linking"
  BY ClosedIsSound, LibraryAssumption DEF LibraryInv, OneLinks, LibraryAssumption
<1>1. ASSUME NEW s \in Slots
      PROVE  /\ Changed(new[s], entry[s]) \in Columns
             /\ Changed(new[s], entry[s]).source # None =>
                   /\ Changed(new[s], entry[s]).source = new[s].source
                   /\ Registered(new[s].source) /\ entry[s].status # "acquired"
             /\ Changed(new[s], entry[s]).status = "acquired" => entry[s].status # "acquired" /\ new[s].status = "acquired"
             /\ new[s].source # None => Changed(new[s], entry[s]).source # None \/ entry[s].source # None
  <2> DEFINE status == IF new[s].status = entry[s].status THEN "absent" ELSE new[s].status
             url == IF new[s].url = entry[s].url THEN None ELSE new[s].url
             from == IF new[s].source = entry[s].source THEN None ELSE new[s].source
             fresh == entry[s] = NoEntry /\ new[s] # NoEntry
  <2>1. new[s] \in Entries /\ entry[s] \in Entries
    BY <1>t
  <2>2. /\ status \in {"absent", "expected", "located", "acquired", "failed"}
        /\ url \in Documents \cup {None} /\ from \in Documents \cup {None} /\ fresh \in BOOLEAN
    BY <2>1 DEF Entries
  <2>3. status = "acquired" => entry[s].status # "acquired" /\ new[s].status = "acquired"
    BY <2>1
  <2>4. from # None => from = new[s].source /\ Registered(new[s].source) /\ entry[s].status # "acquired"
    BY DEF Plan
  <2>5. new[s].source # None => from # None \/ entry[s].source # None
    OBVIOUS
  <2>6. Changed(new[s], entry[s]) = [new |-> fresh, status |-> status, url |-> url, source |-> from]
    BY DEF Changed
  <2> HIDE DEF status, url, from, fresh
  <2> QED
    BY <2>2, <2>3, <2>4, <2>5, <2>6 DEF Columns
<1>2. /\ \A s \in Slots : open'.writes[s] = Changed(new[s], entry[s])
      /\ open'.order = d /\ open'.held = {s \in Slots : entry[s].status = "acquired"}
  BY DEF Opened
<1>3. open' \in Opens
  BY <1>1 DEF Opened, Opens
<1>4. OpenSound'
  <2>1. \A s \in Slots : /\ open'.writes[s].source # None => source'[open'.writes[s].source] # NoSource /\ s \notin open'.held
                         /\ open'.writes[s].status = "acquired" => open'.writes[s].source # None \/ entry'[s].source # None
    BY <1>1, <1>2 DEF Registered, Plan
  <2> QED
    BY <2>1 DEF OpenSound, Registered
<1>5. CASE fetcher' = fetcher
  BY <1>3, <1>4, <1>5, <1>n DEF LibraryInv, LibraryTyped, SourcesHeld, KeysInTurn, NoneBeganBeyond, OneLinks, Registered
<1>6. ASSUME NEW s \in Slots, NEW k \in Keys,
             fetcher' = [fetcher EXCEPT ![s] = [fetcher[s] EXCEPT ![k] = [fetcher[s][k] EXCEPT !.at = "linking"]]],
             fetcher[s][k].at = "queued", d \in Documents, Registered(d), new[s].source # None
      PROVE  LibraryInv'
  <2> DEFINE f == [fetcher[s][k] EXCEPT !.at = "linking"]
  <2>0. fetcher[s][k] \in Fetchers
    BY <1>t
  <2>1. f \in Fetchers /\ f.at = "linking"
    BY <2>0 DEF Fetchers
  <2>2. fetcher' = [fetcher EXCEPT ![s] = [fetcher[s] EXCEPT ![k] = f]]
    BY <1>6
  <2> HIDE DEF f
  <2>3. \A t \in Slots, j \in Keys : fetcher'[t][j] = IF t = s /\ j = k THEN f ELSE fetcher[t][j]
    BY <1>t, <2>2
  <2>4. fetcher' \in [Slots -> [Keys -> Fetchers]]
    BY <1>t, <2>1, <2>2
  <2>5. LibraryTyped' /\ SourcesHeld'
    BY <1>3, <2>4 DEF LibraryInv, LibraryTyped, SourcesHeld, Registered
  <2>6. KeysInTurn' /\ NoneBeganBeyond'
    BY <2>1, <2>3 DEF LibraryInv, KeysInTurn, NoneBeganBeyond
  <2>7. OneLinks'
    BY <1>1, <1>2, <1>6, <1>n, <2>1, <2>3 DEF OneLinks, Registered
  <2> QED
    BY <1>4, <2>5, <2>6, <2>7 DEF LibraryInv
<1> QED
  BY <1>5, <1>6

LEMMA SourcesMove == ASSUME LibraryInv, Registers, UNCHANGED <<entry, fetcher, open>> PROVE LibraryInv'
<1>1. LibraryTyped'
  BY DEF LibraryInv, LibraryTyped, Registers
<1>2. SourcesHeld'
  BY DEF LibraryInv, LibraryTyped, SourcesHeld, Registers, Entries
<1>3. KeysInTurn' /\ NoneBeganBeyond'
  BY DEF LibraryInv, KeysInTurn, NoneBeganBeyond
<1>4. OpenSound'
  BY DEF LibraryInv, LibraryTyped, OpenSound, Registers, Opens, Columns
<1>5. OneLinks'
  BY DEF LibraryInv, OneLinks, Registers
<1> QED
  BY <1>1, <1>2, <1>3, <1>4, <1>5 DEF LibraryInv

\* A commit: columns are written over what the slots have become.
LEMMA FlushKeeps ==
  ASSUME LibraryInv, Flush, Registers
  PROVE  /\ entry' \in [Slots -> Entries] /\ SourcesHeld'
         /\ \A s \in Slots : /\ entry'[s].attempts = entry[s].attempts
                             /\ entry[s].url # None => entry'[s].url # None
                             /\ entry[s].source # None \/ open.writes[s].source # None => entry'[s].source # None
                             /\ open.writes[s].source = None => entry'[s].source = entry[s].source
<1>t. /\ entry \in [Slots -> Entries] /\ open \in Opens
  BY DEF LibraryInv, LibraryTyped
<1>1. ASSUME NEW s \in Slots
      PROVE  /\ entry'[s] \in Entries /\ entry'[s].attempts = entry[s].attempts
             /\ entry[s].url # None => entry'[s].url # None
             /\ entry'[s].source = IF open.writes[s].source = None THEN entry[s].source ELSE open.writes[s].source
             /\ entry'[s].status = "acquired" => entry[s].status = "acquired" \/ open.writes[s].status = "acquired"
  <2> DEFINE status == IF open.writes[s].status = "absent" THEN entry[s].status ELSE open.writes[s].status
             url == IF open.writes[s].url = None THEN entry[s].url ELSE open.writes[s].url
             from == IF open.writes[s].source = None THEN entry[s].source ELSE open.writes[s].source
  <2>1. entry[s] \in Entries /\ open.writes[s] \in Columns
    BY <1>t DEF Opens
  <2>2. /\ status \in {"absent", "expected", "located", "acquired", "failed"}
        /\ url \in Documents \cup {None} /\ from \in Documents \cup {None}
    BY <2>1 DEF Entries, Columns
  <2>3. entry'[s] = [entry[s] EXCEPT !.status = status, !.url = url, !.source = from]
    BY DEF Flush, Written
  <2>4. (entry[s].url # None => url # None) /\ (status = "acquired" => entry[s].status = "acquired" \/ open.writes[s].status = "acquired")
    OBVIOUS
  <2>5. from = IF open.writes[s].source = None THEN entry[s].source ELSE open.writes[s].source
    OBVIOUS
  <2> HIDE DEF status, url, from
  <2>6. /\ entry'[s] \in Entries /\ entry'[s].attempts = entry[s].attempts /\ entry'[s].url = url
        /\ entry'[s].source = from /\ entry'[s].status = status
    BY <2>1, <2>2, <2>3 DEF Entries
  <2> QED
    BY <2>4, <2>5, <2>6
<1>2. entry' \in [Slots -> Entries]
  <2>1. entry' = [s \in Slots |-> Written(entry[s], open.writes[s])]
    BY DEF Flush
  <2>2. \A s \in Slots : Written(entry[s], open.writes[s]) \in Entries
    BY <1>1, <2>1
  <2> QED
    BY <2>1, <2>2
<1>3. SourcesHeld'
  <2> SUFFICES ASSUME NEW s \in Slots
               PROVE  /\ entry'[s].source # None => source'[entry'[s].source] # NoSource
                      /\ entry'[s].status = "acquired" => entry'[s].source # None
    BY DEF SourcesHeld, Registered
  <2>1. /\ entry[s].source # None => Registered(entry[s].source) /\ entry[s].source \in Documents
        /\ entry[s].status = "acquired" => entry[s].source # None
        /\ open.writes[s].source # None => Registered(open.writes[s].source) /\ open.writes[s].source \in Documents
        /\ open.writes[s].status = "acquired" => open.writes[s].source # None \/ entry[s].source # None
    BY <1>t DEF LibraryInv, SourcesHeld, OpenSound, Entries, Opens, Columns
  <2>2. \A d \in Documents : Registered(d) => source'[d] # NoSource
    BY DEF Registers, Registered
  <2> QED
    BY <1>1, <2>1, <2>2
<1> QED
  BY <1>1, <1>2, <1>3

\* The commit of a person's call, or its rollback.
LEMMA CommitKeeps == ASSUME LibraryInv, CommitDesk PROVE LibraryInv'
<1>t. Registers /\ UNCHANGED <<source, fetcher>> /\ open' = Closed /\ open.order = None
  BY DEF CommitDesk, Registers, LibraryInv, LibraryTyped, Registered
<1>n. \A s \in Slots, k \in Keys : fetcher[s][k].at # "linking"
  BY <1>t, LibraryAssumption DEF LibraryInv, OneLinks, LibraryAssumption
<1>1. OneLinks' /\ OpenSound'
  BY <1>t, <1>n, ClosedIsSound DEF OneLinks, OpenSound
<1>2. CASE UNCHANGED entry
  BY <1>1, <1>2, <1>t, ClosedIsTyped DEF LibraryInv, LibraryTyped, SourcesHeld, KeysInTurn, NoneBeganBeyond, Registered
<1>3. CASE Flush
  <2>1. /\ entry' \in [Slots -> Entries] /\ SourcesHeld'
        /\ \A s \in Slots : /\ entry'[s].attempts = entry[s].attempts
                            /\ entry[s].url # None => entry'[s].url # None
                            /\ entry[s].source # None => entry'[s].source # None
    BY <1>3, <1>t, FlushKeeps
  <2>2. LibraryTyped'
    BY <1>t, <2>1, ClosedIsTyped DEF LibraryInv, LibraryTyped, Registered
  <2>3. KeysInTurn' /\ NoneBeganBeyond'
    BY <1>t, <2>1 DEF LibraryInv, KeysInTurn, NoneBeganBeyond
  <2> QED
    BY <1>1, <2>1, <2>2, <2>3 DEF LibraryInv
<1> QED
  BY <1>2, <1>3 DEF CommitDesk

\* A step of one job, with what it writes to its entry; it does not end in linking.
LEMMA FetcherMoves ==
  ASSUME LibraryInv, Registers, UNCHANGED open, NEW s \in Slots, NEW k \in Keys, NEW f \in Fetchers, NEW e \in Entries,
         fetcher' = [fetcher EXCEPT ![s] = [fetcher[s] EXCEPT ![k] = f]], entry' = [entry EXCEPT ![s] = e],
         e.attempts = entry[s].attempts \/ (k = entry[s].attempts + 1 /\ e.attempts = k),
         entry[s].url # None => e.url # None,
         e.source = None => entry[s].source = None,
         e.source # None => source'[e.source] # NoSource,
         e.status = "acquired" => e.source # None,
         f.at \notin {"none", "linking"}, f.at = "queued" => k = e.attempts + 1 /\ e.url # None,
         f.at = "fetching" => f.url \in Documents /\ k <= e.attempts,
         f.at \in {"succeeded", "failed"} => e.source # None \/ k <= e.attempts
  PROVE  LibraryInv'
<1> USE DEF Keys
<1>1. \A t \in Slots : entry'[t] = IF t = s THEN e ELSE entry[t]
  BY DEF LibraryInv, LibraryTyped
<1>2. \A t \in Slots, j \in Keys : fetcher'[t][j] = IF t = s /\ j = k THEN f ELSE fetcher[t][j]
  BY DEF LibraryInv, LibraryTyped
<1>3. LibraryTyped'
  <2>1. entry' \in [Slots -> Entries] /\ fetcher' \in [Slots -> [Keys -> Fetchers]]
    BY DEF LibraryInv, LibraryTyped
  <2> QED
    BY <2>1 DEF LibraryInv, LibraryTyped, Registers
<1>4. SourcesHeld'
  <2> SUFFICES ASSUME NEW t \in Slots
               PROVE  /\ entry'[t].source # None => source'[entry'[t].source] # NoSource
                      /\ entry'[t].status = "acquired" => entry'[t].source # None
    BY DEF SourcesHeld, Registered
  <2>1. CASE t = s
    BY <1>1, <2>1
  <2>2. CASE t # s
    <3>1. entry'[t] = entry[t] /\ entry[t] \in Entries
      BY <1>1, <2>2 DEF LibraryInv, LibraryTyped
    <3>2. /\ entry[t].source # None => Registered(entry[t].source)
          /\ entry[t].status = "acquired" => entry[t].source # None
      BY DEF LibraryInv, SourcesHeld
    <3>3. entry[t].source # None => entry[t].source \in Documents
      BY <3>1 DEF Entries
    <3> QED
      BY <3>1, <3>2, <3>3 DEF Registers, Registered
  <2> QED
    BY <2>1, <2>2
<1>5. entry[s].attempts \in Nat /\ e.attempts \in Nat /\ k \in Nat
  BY LibraryAssumption DEF LibraryInv, LibraryTyped, Entries, LibraryAssumption
<1>6. KeysInTurn'
  <2> SUFFICES ASSUME NEW t \in Slots, NEW j \in Keys
               PROVE  /\ fetcher'[t][j].at = "none" => fetcher'[t][j] = NoFetcher
                      /\ fetcher'[t][j].at = "queued" => j = entry'[t].attempts + 1 /\ entry'[t].url # None
                      /\ fetcher'[t][j].at = "fetching" => fetcher'[t][j].url \in Documents
                      /\ j > entry'[t].attempts => fetcher'[t][j].at # "fetching"
    BY DEF KeysInTurn
  <2>1. CASE t # s
    BY <1>1, <1>2, <2>1 DEF LibraryInv, KeysInTurn
  <2>2. CASE t = s /\ j = k
    BY <1>1, <1>2, <1>5, <2>2
  <2>3. CASE t = s /\ j # k
    BY <1>1, <1>2, <1>5, <2>3 DEF LibraryInv, KeysInTurn
  <2> QED
    BY <2>1, <2>2, <2>3
<1>7. NoneBeganBeyond'
  <2> SUFFICES ASSUME NEW t \in Slots, NEW j \in Keys, entry'[t].source = None, j > entry'[t].attempts
               PROVE  fetcher'[t][j].at \notin {"succeeded", "failed"}
    BY DEF NoneBeganBeyond
  <2>1. CASE t # s
    BY <1>1, <1>2, <2>1 DEF LibraryInv, NoneBeganBeyond
  <2>2. CASE t = s /\ j = k
    BY <1>1, <1>2, <1>5, <2>2
  <2>3. CASE t = s /\ j # k
    BY <1>1, <1>2, <1>5, <2>3 DEF LibraryInv, NoneBeganBeyond
  <2> QED
    BY <2>1, <2>2, <2>3
<1>8. \A t \in Slots : entry[t].source # None => entry'[t].source # None
  BY <1>1
<1>9. OpenSound'
  <2>1. \A t \in Slots : open.writes[t].source # None => open.writes[t].source \in Documents
    BY DEF LibraryInv, LibraryTyped, Opens, Columns
  <2> QED
    BY <1>8, <2>1 DEF LibraryInv, OpenSound, Registers
<1>10. OneLinks'
  BY <1>2, <1>8 DEF LibraryInv, OneLinks, Registers
<1> QED
  BY <1>3, <1>4, <1>6, <1>7, <1>9, <1>10 DEF LibraryInv

LEMMA OpensKeeps ==
  ASSUME LibraryInv, Seed \/ Reconcile \/ (\E s \in Slots, d \in Documents : SetUrl(s, d))
  PROVE  LibraryInv' /\ UNCHANGED <<entry, source>>
<1>t. entry \in [Slots -> Entries] /\ None \in Documents \cup {None}
  BY DEF LibraryInv, LibraryTyped
<1>1. ASSUME Seed PROVE LibraryInv' /\ UNCHANGED <<entry, source>>
  <2> DEFINE expected == [NoEntry EXCEPT !.status = "expected"]
             seeded == [s \in Slots |-> IF s[2] = "fy" /\ entry[s] = NoEntry THEN expected ELSE entry[s]]
  <2>1. /\ expected \in Entries /\ expected.source = None /\ expected.status = "expected" /\ NoEntry.source = None
    BY LibraryAssumption DEF NoEntry, Entries, LibraryAssumption
  <2>2. PICK new \in Reconciled(seeded) : open' = Opened(new, None)
    BY <1>1 DEF Seed
  <2> HIDE DEF expected
  <2>3. seeded \in [Slots -> Entries]
    BY <1>t, <2>1
  <2>4. Grown(entry, seeded)
    BY <2>1 DEF Grown
  <2> HIDE DEF seeded
  <2>5. new \in [Slots -> Entries] /\ Grown(seeded, new)
    BY <2>2, <2>3, ReconciledGrows
  <2>6. Grown(entry, new)
    BY <2>4, <2>5 DEF Grown
  <2>7. Plan(new)
    BY <2>6, GrownIsPlan
  <2> QED
    BY <1>1, <1>t, <2>2, <2>5, <2>7, OpenedKeeps DEF Seed
<1>2. ASSUME Reconcile PROVE LibraryInv' /\ UNCHANGED <<entry, source>>
  <2>1. PICK new \in Reconciled(entry) : open' = Opened(new, None)
    BY <1>2 DEF Reconcile
  <2>2. new \in [Slots -> Entries] /\ Grown(entry, new)
    BY <1>t, <2>1, ReconciledGrows
  <2>3. Plan(new)
    BY <2>2, GrownIsPlan
  <2> QED
    BY <1>2, <1>t, <2>1, <2>2, <2>3, OpenedKeeps DEF Reconcile
<1>3. ASSUME NEW s \in Slots, NEW d \in Documents, SetUrl(s, d) PROVE LibraryInv' /\ UNCHANGED <<entry, source>>
  <2> DEFINE status == CASE entry[s].status = "absent" -> "expected"
                         [] entry[s].status \in {"expected", "failed"} -> "located"
                         [] OTHER -> entry[s].status
             e == Located(entry[s], d)
             new == [entry EXCEPT ![s] = e]
  <2>1. open' = Opened(new, None) /\ open = Closed /\ UNCHANGED <<entry, source, fetcher>>
    BY <1>3 DEF SetUrl
  <2>2. Located(entry[s], d) = [entry[s] EXCEPT !.url = d, !.status = status]
    BY DEF Located
  <2>3. status \in {"expected", "located", "acquired"} /\ (status = "acquired" => entry[s].status = "acquired")
    <3>1. entry[s] \in Entries
      BY <1>t
    <3> QED
      BY <3>1 DEF Entries
  <2> HIDE DEF status
  <2>4. e \in Entries /\ e.source = entry[s].source /\ e.status = status
    BY <1>t, <2>2, <2>3 DEF Entries
  <2> HIDE DEF e
  <2>5. new \in [Slots -> Entries] /\ \A t \in Slots : new[t] = IF t = s THEN e ELSE entry[t]
    BY <1>t, <2>4
  <2> HIDE DEF new
  <2>6. Plan(new)
    BY <2>3, <2>4, <2>5 DEF Plan
  <2> QED
    BY <1>t, <2>1, <2>5, <2>6, OpenedKeeps
<1> QED
  BY <1>1, <1>2, <1>3

\* What people do to the orders.
LEMMA OrderEditKeeps ==
  ASSUME LibraryInv, NEW d \in Documents,
         \/ \E year \in Years : Classify(d, year) \/ \E u \in Licensees : Upload(d, u, year)
         \/ \E us \in SUBSET Licensees : SetLicensees(d, us)
  PROVE  LibraryInv'
<1>t. source \in [Documents -> Orders] /\ \A x \in Documents : Registered(x) => source[x].primary \in source[x].licensees
  BY DEF LibraryInv, LibraryTyped
<1>1. ASSUME NEW order \in Orders, order.primary \in order.licensees, source' = [source EXCEPT ![d] = order] PROVE Registers
  <2>1. order.primary \in Licensees
    BY <1>1 DEF Orders
  <2>2. order # NoSource
    BY <2>1, LibraryAssumption DEF NoSource, LibraryAssumption
  <2> QED
    BY <1>t, <1>1, <2>2 DEF Registers, Registered
<1>2. ASSUME NEW u \in Licensees, NEW year \in Years, Upload(d, u, year) PROVE Registers /\ UNCHANGED <<entry, fetcher, open>>
  <2> DEFINE order == [licensees |-> {u}, primary |-> u, year |-> year]
  <2>1. order \in Orders /\ order.primary \in order.licensees /\ source' = [source EXCEPT ![d] = order]
    BY <1>2 DEF Orders, Upload
  <2> HIDE DEF order
  <2> QED
    BY <1>1, <1>2, <2>1 DEF Upload
<1>3. ASSUME NEW year \in Years, Classify(d, year) PROVE Registers /\ UNCHANGED <<entry, fetcher, open>>
  <2> DEFINE order == [source[d] EXCEPT !.year = year]
  <2>0. source[d] \in Orders /\ source[d].primary \in source[d].licensees
    BY <1>t, <1>3 DEF Classify
  <2>1. order \in Orders /\ order.primary \in order.licensees /\ source' = [source EXCEPT ![d] = order]
    BY <2>0, <1>3 DEF Classify, Orders
  <2> HIDE DEF order
  <2> QED
    BY <1>1, <1>3, <2>1 DEF Classify
<1>4. ASSUME NEW us \in SUBSET Licensees, SetLicensees(d, us) PROVE Registers /\ UNCHANGED <<entry, fetcher, open>>
  <2> DEFINE order == [source[d] EXCEPT !.licensees = us]
  <2>0. source[d] \in Orders /\ source[d].primary \in us
    BY <1>t, <1>4 DEF SetLicensees
  <2>1. order \in Orders /\ order.primary \in order.licensees /\ source' = [source EXCEPT ![d] = order]
    BY <2>0, <1>4 DEF SetLicensees, Orders
  <2> HIDE DEF order
  <2> QED
    BY <1>1, <1>4, <2>1 DEF SetLicensees
<1> QED
  BY <1>2, <1>3, <1>4, SourcesMove

\* A twin's commit: the plan of the transaction, and the licensee that joins.
LEMMA LinkKeeps ==
  ASSUME LibraryInv, NEW s \in Slots, NEW k \in Keys, LinkTwin(s, k)
  PROVE  /\ LibraryInv'
         /\ open.order \in Documents
         /\ \A d \in Documents : /\ source'[d].primary = source[d].primary /\ source'[d].year = source[d].year
                                 /\ source[d].licensees \subseteq source'[d].licensees
<1> USE DEF Keys
<1>t. /\ source \in [Documents -> Orders] /\ fetcher \in [Slots -> [Keys -> Fetchers]]
      /\ \A d \in Documents : Registered(d) => source[d].primary \in source[d].licensees
  BY DEF LibraryInv, LibraryTyped
<1>1. /\ open.order \in Documents /\ Registered(open.order)
      /\ open.writes[s].source # None \/ entry[s].source # None
      /\ \A t \in Slots, j \in Keys : fetcher[t][j].at = "linking" => t = s /\ j = k
  BY DEF LibraryInv, OneLinks, LinkTwin
<1>d. PICK o \in Documents : o = open.order
  BY <1>1
<1> DEFINE order == [source[o] EXCEPT !.licensees = @ \cup {s[1]}]
           f == [at |-> "succeeded", url |-> None]
<1>o. source[o] \in Orders /\ source[o].primary \in source[o].licensees
  BY <1>t, <1>1, <1>d
<1>2. /\ order \in Orders /\ order.primary = source[o].primary /\ order.year = source[o].year
      /\ order.licensees = source[o].licensees \cup {s[1]} /\ source' = [source EXCEPT ![o] = order]
  BY <1>o, <1>d DEF LinkTwin, Orders, Slots
<1>3. f \in Fetchers /\ f.at = "succeeded" /\ fetcher' = [fetcher EXCEPT ![s] = [fetcher[s] EXCEPT ![k] = f]]
  BY DEF LinkTwin, End, Fetchers, Over
<1> HIDE DEF order, f
<1>4. order # NoSource
  <2>1. order.primary \in Licensees
    BY <1>o, <1>2 DEF Orders
  <2> QED
    BY <2>1, LibraryAssumption DEF NoSource, LibraryAssumption
<1>5. Registers
  <2>1. \A d \in Documents : source'[d] = IF d = o THEN order ELSE source[d]
    BY <1>t, <1>2
  <2> QED
    BY <1>t, <1>o, <1>2, <1>4, <2>1 DEF Registers, Registered
<1>6. /\ entry' \in [Slots -> Entries] /\ SourcesHeld'
      /\ \A t \in Slots : /\ entry'[t].attempts = entry[t].attempts
                          /\ entry[t].url # None => entry'[t].url # None
                          /\ entry[t].source # None \/ open.writes[t].source # None => entry'[t].source # None
  BY <1>5, FlushKeeps DEF LinkTwin
<1>7. \A t \in Slots, j \in Keys : fetcher'[t][j] = IF t = s /\ j = k THEN f ELSE fetcher[t][j]
  BY <1>t, <1>3
<1>8. LibraryTyped'
  <2>1. fetcher' \in [Slots -> [Keys -> Fetchers]]
    BY <1>t, <1>3
  <2>2. open' \in Opens
    BY ClosedIsTyped DEF LinkTwin
  <2> QED
    BY <1>5, <1>6, <2>1, <2>2 DEF LibraryTyped, Registers
<1>9. KeysInTurn' /\ NoneBeganBeyond'
  BY <1>1, <1>3, <1>6, <1>7 DEF LibraryInv, KeysInTurn, NoneBeganBeyond
<1>10. OpenSound' /\ OneLinks'
  BY <1>1, <1>3, <1>7, ClosedIsSound DEF LinkTwin, OpenSound, OneLinks
<1>11. \A d \in Documents : /\ source'[d].primary = source[d].primary /\ source'[d].year = source[d].year
                            /\ source[d].licensees \subseteq source'[d].licensees
  BY <1>t, <1>2
<1> QED
  BY <1>1, <1>6, <1>8, <1>9, <1>10, <1>11 DEF LibraryInv

\* Requests and the steps of the job; a twin's commit is LinkKeeps.
LEMMA FetcherStepKeeps ==
  ASSUME LibraryInv, NEW s \in Slots, NEW k \in Keys,
         \/ RequestAcquisition(s) \/ CancelAcquisition(s, k) \/ SkipAcquired(s, k) \/ FindTwin(s, k) \/ StartFetch(s, k)
         \/ FetchFails(s, k) \/ Acquire(s, k) \/ RegistrationRefused(s, k) \/ FetcherDies(s, k)
  PROVE  LibraryInv'
<1> USE DEF Over
<1>t. /\ entry \in [Slots -> Entries] /\ source \in [Documents -> Orders] /\ fetcher \in [Slots -> [Keys -> Fetchers]]
      /\ \A d \in Documents : Registered(d) => source[d].primary \in source[d].licensees
      /\ entry[s] \in Entries /\ entry[s].attempts \in Nat
  BY LibraryAssumption DEF LibraryInv, LibraryTyped, Entries, LibraryAssumption
<1>e. UNCHANGED entry => entry' = [entry EXCEPT ![s] = entry[s]]
  BY <1>t
<1>s. UNCHANGED source => Registers
  BY <1>t DEF Registers, Registered
<1>h. (entry[s].source # None => Registered(entry[s].source)) /\ (entry[s].status = "acquired" => entry[s].source # None)
  BY DEF LibraryInv, SourcesHeld
<1>r. UNCHANGED source => (entry[s].source # None => source'[entry[s].source] # NoSource)
  BY <1>h DEF Registered
<1>k. ASSUME NEW j \in Keys
      PROVE  /\ fetcher[s][j] \in Fetchers
             /\ fetcher[s][j].at = "queued" => j = entry[s].attempts + 1 /\ entry[s].url # None
             /\ fetcher[s][j].at = "fetching" => fetcher[s][j].url \in Documents /\ j <= entry[s].attempts
  <2>1. fetcher[s][j] \in Fetchers
    BY <1>t
  <2>2. j \in Nat
    BY DEF Keys
  <2>3. /\ fetcher[s][j].at = "queued" => j = entry[s].attempts + 1 /\ entry[s].url # None
        /\ fetcher[s][j].at = "fetching" => fetcher[s][j].url \in Documents
        /\ j > entry[s].attempts => fetcher[s][j].at # "fetching"
    BY DEF LibraryInv, KeysInTurn
  <2>4. fetcher[s][j].at = "fetching" => j <= entry[s].attempts
    BY <1>t, <2>2, <2>3
  <2> QED
    BY <2>1, <2>3, <2>4
<1>1. ASSUME RequestAcquisition(s) PROVE LibraryInv'
  <2> DEFINE j == entry[s].attempts + 1
             f == [fetcher[s][j] EXCEPT !.at = "queued"]
  <2>1. /\ j \in Keys /\ entry[s].url # None /\ UNCHANGED <<entry, source, open>>
        /\ fetcher' = [fetcher EXCEPT ![s] = [fetcher[s] EXCEPT ![j] = f]]
    BY <1>1 DEF RequestAcquisition, KeyOf
  <2>2. f \in Fetchers /\ f.at = "queued"
    BY <1>k, <2>1 DEF Fetchers
  <2>3. j = entry[s].attempts + 1
    OBVIOUS
  <2> HIDE DEF f, j
  <2> QED
    BY <1>t, <1>e, <1>s, <1>h, <1>r, <2>1, <2>2, <2>3, FetcherMoves
<1>2. ASSUME NEW outcome \in Over, UNCHANGED <<entry, source, open>>, End(s, k, outcome),
             outcome = "succeeded" => entry[s].source # None, outcome = "failed" => k <= entry[s].attempts
      PROVE  LibraryInv'
  <2> DEFINE f == [at |-> outcome, url |-> None]
  <2>1. fetcher' = [fetcher EXCEPT ![s] = [fetcher[s] EXCEPT ![k] = f]]
    BY <1>2 DEF End
  <2>2. f \in Fetchers /\ f.at = outcome
    BY <1>2 DEF Fetchers
  <2> HIDE DEF f
  <2>3. entry' = [entry EXCEPT ![s] = entry[s]] /\ Registers /\ (entry[s].source # None => source'[entry[s].source] # NoSource)
    BY <1>2, <1>e, <1>s, <1>r
  <2>4. /\ f.at \notin {"none", "linking"} /\ f.at # "queued" /\ f.at # "fetching"
        /\ f.at \in {"succeeded", "failed"} => entry[s].source # None \/ k <= entry[s].attempts
    BY <1>2, <2>2
  <2> QED
    BY <1>2, <1>t, <1>h, <2>1, <2>2, <2>3, <2>4, FetcherMoves
<1>3. ASSUME CancelAcquisition(s, k) PROVE LibraryInv'
  BY <1>2, <1>3 DEF CancelAcquisition
<1>4. ASSUME SkipAcquired(s, k) PROVE LibraryInv'
  BY <1>2, <1>4, <1>h DEF SkipAcquired
<1>5. ASSUME RegistrationRefused(s, k) PROVE LibraryInv'
  BY <1>2, <1>5, <1>k DEF RegistrationRefused
<1>6. ASSUME FetcherDies(s, k) PROVE LibraryInv'
  <2>1. CASE fetcher[s][k].at = "queued"
    BY <1>2, <1>6, <2>1 DEF FetcherDies
  <2>2. CASE fetcher[s][k].at = "fetching"
    BY <1>2, <1>6, <1>k, <2>2 DEF FetcherDies
  <2>3. CASE fetcher[s][k].at = "linking"
    <3> DEFINE f == [at |-> "unbegun", url |-> None]
    <3>1. /\ f \in Fetchers /\ f.at = "unbegun" /\ fetcher' = [fetcher EXCEPT ![s] = [fetcher[s] EXCEPT ![k] = f]]
          /\ UNCHANGED <<entry, source>> /\ open' = Closed
      BY <1>6, <2>3 DEF FetcherDies, End, Fetchers
    <3> HIDE DEF f
    <3>2. \A t \in Slots, j \in Keys : fetcher'[t][j] = IF t = s /\ j = k THEN f ELSE fetcher[t][j]
      BY <1>t, <3>1 DEF Keys
    <3>3. \A t \in Slots, j \in Keys : fetcher[t][j].at = "linking" => t = s /\ j = k
      BY <2>3 DEF LibraryInv, OneLinks
    <3>4. LibraryTyped' /\ SourcesHeld'
      <4>1. fetcher' \in [Slots -> [Keys -> Fetchers]]
        BY <1>t, <3>1 DEF Keys
      <4> QED
        BY <3>1, <4>1, ClosedIsTyped DEF LibraryInv, LibraryTyped, SourcesHeld, Registered
    <3>5. KeysInTurn' /\ NoneBeganBeyond'
      BY <3>1, <3>2 DEF LibraryInv, KeysInTurn, NoneBeganBeyond
    <3>6. OpenSound' /\ OneLinks'
      BY <3>1, <3>2, <3>3, ClosedIsSound DEF OpenSound, OneLinks
    <3> QED
      BY <3>4, <3>5, <3>6 DEF LibraryInv
  <2> QED
    BY <1>6, <2>1, <2>2, <2>3 DEF FetcherDies
<1>7. ASSUME FindTwin(s, k) PROVE LibraryInv'
  <2>1. PICK t \in Twins(s) : open' = Opened([entry EXCEPT ![s].source = entry[t].source, ![s].status = "acquired"], entry[t].source)
    BY <1>7 DEF FindTwin
  <2>2. entry[t].source \in Documents /\ Registered(entry[t].source) /\ entry[t].source # None
    BY <1>t DEF Twins, Entries, LibraryInv, SourcesHeld
  <2>d. PICK d \in Documents : d = entry[t].source
    BY <2>2
  <2> DEFINE e == [entry[s] EXCEPT !.source = d, !.status = "acquired"]
             new == [entry EXCEPT ![s] = e]
  <2>3. e \in Entries /\ e.source = d
    BY <1>t DEF Entries
  <2>4. open' = Opened(new, d)
    BY <2>1, <2>d
  <2> HIDE DEF e
  <2>5. new \in [Slots -> Entries] /\ \A x \in Slots : new[x] = IF x = s THEN e ELSE entry[x]
    BY <1>t, <2>3
  <2> HIDE DEF new
  <2>6. d # None /\ Registered(d) /\ entry[s].status # "acquired"
    BY <1>7, <2>2, <2>d DEF FindTwin
  <2>7. Plan(new) /\ new[s].source # None
    BY <2>3, <2>5, <2>6 DEF Plan
  <2>8. /\ fetcher' = [fetcher EXCEPT ![s] = [fetcher[s] EXCEPT ![k] = [fetcher[s][k] EXCEPT !.at = "linking"]]]
        /\ fetcher[s][k].at = "queued" /\ open = Closed /\ UNCHANGED <<entry, source>>
    BY <1>7 DEF FindTwin
  <2> QED
    BY <2>4, <2>5, <2>6, <2>7, <2>8, OpenedKeeps
<1>8. ASSUME StartFetch(s, k) PROVE LibraryInv'
  <2> DEFINE e == [entry[s] EXCEPT !.attempts = entry[s].attempts + 1]
             f == [at |-> "fetching", url |-> entry[s].url]
  <2>1. k = entry[s].attempts + 1 /\ entry[s].url # None
    BY <1>8, <1>k DEF StartFetch
  <2>k. k \in 0 .. MaxKeys
    BY LibraryAssumption DEF Keys, LibraryAssumption
  <2>2. e \in Entries /\ e.source = entry[s].source /\ e.attempts = k /\ e.url = entry[s].url /\ e.status = entry[s].status
    BY <1>t, <2>1, <2>k DEF Entries
  <2>5. entry' = [entry EXCEPT ![s] = e]
    BY <1>8 DEF StartFetch, Attempted
  <2>3. f \in Fetchers /\ f.at = "fetching" /\ f.url \in Documents /\ fetcher' = [fetcher EXCEPT ![s] = [fetcher[s] EXCEPT ![k] = f]]
    BY <1>8, <1>t, <2>1 DEF StartFetch, Fetchers, Entries
  <2>4. UNCHANGED <<source, open>> /\ k <= e.attempts
    BY <1>8, <1>t, <2>1, <2>2, <2>k DEF StartFetch
  <2> HIDE DEF e, f
  <2> QED
    BY <1>t, <1>s, <1>h, <1>r, <2>1, <2>2, <2>3, <2>4, <2>5, FetcherMoves
<1>9. ASSUME FetchFails(s, k) PROVE LibraryInv'
  <2> DEFINE e == [entry[s] EXCEPT !.status = "failed"]
             f == [at |-> "failed", url |-> None]
  <2>1. /\ e \in Entries /\ e.source = entry[s].source /\ e.attempts = entry[s].attempts /\ e.url = entry[s].url /\ e.status = "failed"
        /\ entry' = [entry EXCEPT ![s] = e] /\ UNCHANGED <<source, open>>
    BY <1>9, <1>t DEF FetchFails, Entries
  <2>2. f \in Fetchers /\ f.at = "failed" /\ fetcher' = [fetcher EXCEPT ![s] = [fetcher[s] EXCEPT ![k] = f]] /\ k <= entry[s].attempts
    BY <1>9, <1>k DEF FetchFails, Fetchers, End
  <2> HIDE DEF e, f
  <2> QED
    BY <1>t, <1>s, <1>h, <1>r, <2>1, <2>2, FetcherMoves
<1>10. ASSUME Acquire(s, k) PROVE LibraryInv'
  <2>d. PICK d \in Documents : d = fetcher[s][k].url
    BY <1>10, <1>k DEF Acquire
  <2> DEFINE e == [entry[s] EXCEPT !.source = d, !.status = "acquired"]
             f == [at |-> "succeeded", url |-> None]
             order == Registration(d, s[1])
  <2>1. d # None /\ s[1] \in Licensees
    BY LibraryAssumption DEF LibraryAssumption, Slots
  <2>2. /\ e \in Entries /\ e.source = d /\ e.attempts = entry[s].attempts /\ e.url = entry[s].url
        /\ entry' = [entry EXCEPT ![s] = e] /\ UNCHANGED open
    BY <1>10, <1>t, <2>d DEF Acquire, Entries
  <2>3. f \in Fetchers /\ f.at = "succeeded" /\ fetcher' = [fetcher EXCEPT ![s] = [fetcher[s] EXCEPT ![k] = f]]
    BY <1>10 DEF Acquire, Fetchers, End
  <2>4. order \in Orders /\ order.primary \in order.licensees /\ source' = [source EXCEPT ![d] = order]
    BY <1>10, <1>t, <2>d, <2>1 DEF Acquire, Registration, Orders, Years
  <2> HIDE DEF e, f, order
  <2>7. order.primary # None
    BY <2>4, LibraryAssumption DEF LibraryAssumption, Orders
  <2>8. NoSource.primary = None
    BY DEF NoSource
  <2>5. order # NoSource
    BY <2>7, <2>8
  <2>6. Registers /\ source'[d] # NoSource
    BY <1>t, <2>4, <2>5 DEF Registers, Registered
  <2> QED
    BY <1>t, <2>1, <2>2, <2>3, <2>6, FetcherMoves
<1> QED
  BY <1>1, <1>3, <1>4, <1>5, <1>6, <1>7, <1>8, <1>9, <1>10

LEMMA StepKeepsLibrary == LibraryInv /\ [LibraryNext]_libraryVars => LibraryInv'
<1> SUFFICES ASSUME LibraryInv, [LibraryNext]_libraryVars PROVE LibraryInv'
  OBVIOUS
<1>1. CASE Seed \/ Reconcile \/ (\E s \in Slots, d \in Documents : SetUrl(s, d))
  BY <1>1, OpensKeeps
<1>2. ASSUME NEW d \in Documents,
             \/ \E year \in Years : Classify(d, year) \/ \E u \in Licensees : Upload(d, u, year)
             \/ \E us \in SUBSET Licensees : SetLicensees(d, us)
      PROVE  LibraryInv'
  BY <1>2, OrderEditKeeps
<1>3. ASSUME NEW s \in Slots, RequestAcquisition(s) PROVE LibraryInv'
  <2>1. KeyOf(entry[s]) \in Keys
    BY <1>3 DEF RequestAcquisition
  <2> QED
    BY <1>3, <2>1, FetcherStepKeeps
<1>4. CASE \E s \in Slots, k \in Keys :
              \/ CancelAcquisition(s, k) \/ SkipAcquired(s, k) \/ FindTwin(s, k) \/ StartFetch(s, k)
              \/ FetchFails(s, k) \/ Acquire(s, k) \/ RegistrationRefused(s, k) \/ FetcherDies(s, k)
  BY <1>4, FetcherStepKeeps
<1>5. CASE \E s \in Slots, k \in Keys : LinkTwin(s, k)
  BY <1>5, LinkKeeps
<1>6. CASE CommitDesk
  BY <1>6, CommitKeeps
<1>7. CASE UNCHANGED libraryVars
  BY <1>7 DEF libraryVars, LibraryInv, LibraryTyped, SourcesHeld, KeysInTurn, NoneBeganBeyond, OpenSound, OneLinks, Registered
<1> QED
  BY <1>1, <1>2, <1>3, <1>4, <1>5, <1>6, <1>7 DEF LibraryNext

LEMMA LibraryKeeps == LibrarySpec => []LibraryInv
<1> QED
  BY InitEstablishesLibrary, StepKeepsLibrary, PTL DEF LibrarySpec

LEMMA InvTypesLibrary == LibraryInv => LibraryTypeOK /\ FailedDownloadCanBeRetried
<1> SUFFICES ASSUME LibraryInv PROVE LibraryTypeOK /\ FailedDownloadCanBeRetried
  OBVIOUS
<1>1. LibraryTypeOK
  BY DEF LibraryInv, LibraryTyped, SourcesHeld, OneLinks, LibraryTypeOK, Entries, Orders, Fetchers
<1>2. ASSUME NEW s \in Slots, KeyOf(entry[s]) \in Keys PROVE KeyOf(entry[s]) > entry[s].attempts
  BY <1>2, LibraryAssumption DEF LibraryInv, LibraryTyped, Entries, KeyOf, LibraryAssumption
<1>3. FailedDownloadCanBeRetried
  BY <1>2 DEF LibraryInv, NoneBeganBeyond, FailedDownloadCanBeRetried
<1> QED
  BY <1>1, <1>3

\* Entries, sources, jobs and the open transaction stay well typed, an acquired slot has a registered
\* source, and a job that links is the one whose transaction is open, for any slots and documents
\* (LibraryEntry, reconcile, acquire).
THEOREM LibraryTypeCorrect == LibrarySpec => []LibraryTypeOK
<1> QED
  BY LibraryKeeps, InvTypesLibrary, PTL

\* The edits of people are counted.
LEMMA EditsCounted == LibrarySpec => [](edits \in Nat)
<1>1. LibraryInit => edits \in Nat
  BY DEF LibraryInit
<1>2. edits \in Nat /\ [LibraryNext]_libraryVars => (edits \in Nat)'
  <2> SUFFICES ASSUME edits \in Nat, [LibraryNext]_libraryVars PROVE edits' \in Nat
    OBVIOUS
  <2>1. CASE UNCHANGED edits
    BY <2>1
  <2>2. CASE Edit
    BY <2>2 DEF Edit
  <2>3. Seed \/ Reconcile \/ CommitDesk => UNCHANGED edits
    BY DEF Seed, Reconcile, CommitDesk
  <2>4. ASSUME NEW d \in Documents
        PROVE  /\ \A s \in Slots : SetUrl(s, d) => Edit
               /\ \A year \in Years : Classify(d, year) => Edit
               /\ \A u \in Licensees, year \in Years : Upload(d, u, year) => Edit
               /\ \A us \in SUBSET Licensees : SetLicensees(d, us) => Edit
    BY DEF SetUrl, Upload, Classify, SetLicensees
  <2>5. ASSUME NEW s \in Slots, RequestAcquisition(s) PROVE UNCHANGED edits
    BY <2>5 DEF RequestAcquisition
  <2>6. ASSUME NEW s \in Slots, NEW k \in Keys,
               \/ CancelAcquisition(s, k) \/ SkipAcquired(s, k) \/ FindTwin(s, k) \/ LinkTwin(s, k) \/ StartFetch(s, k)
               \/ FetchFails(s, k) \/ Acquire(s, k) \/ RegistrationRefused(s, k) \/ FetcherDies(s, k)
        PROVE  UNCHANGED edits
    BY <2>6 DEF CancelAcquisition, SkipAcquired, FindTwin, LinkTwin, StartFetch, FetchFails, Acquire, RegistrationRefused,
                FetcherDies
  <2> QED
    BY <2>1, <2>2, <2>3, <2>4, <2>5, <2>6 DEF LibraryNext, libraryVars
<1> QED
  BY <1>1, <1>2, PTL DEF LibrarySpec

LEMMA StepHolds ==
  LibraryInv /\ edits \in Nat /\ [LibraryNext]_libraryVars => [RegistrationStands /\ HeldSlotIsLeftAlone]_libraryVars
<1> SUFFICES ASSUME LibraryInv, edits \in Nat, LibraryNext PROVE RegistrationStands /\ HeldSlotIsLeftAlone
  OBVIOUS
<1>t. /\ entry \in [Slots -> Entries] /\ source \in [Documents -> Orders] /\ fetcher \in [Slots -> [Keys -> Fetchers]]
      /\ \A d \in Documents : Registered(d) => source[d].primary \in source[d].licensees
  BY DEF LibraryInv, LibraryTyped
<1>r. UNCHANGED source => RegistrationStands
  BY <1>t DEF RegistrationStands
<1>e. UNCHANGED entry => HeldSlotIsLeftAlone
  BY DEF HeldSlotIsLeftAlone
<1>f. ASSUME Flush, Registers, open # Closed, open' = Closed PROVE HeldSlotIsLeftAlone
  <2>1. \A s \in Slots : open.writes[s].source = None => entry'[s].source = entry[s].source
    BY <1>f, FlushKeeps
  <2>2. \A s \in Slots : open.writes[s].source # None => s \notin open.held
    BY DEF LibraryInv, OpenSound
  <2> QED
    BY <1>f, <2>1, <2>2 DEF HeldSlotIsLeftAlone
<1>1. CASE Seed \/ Reconcile \/ (\E s \in Slots, d \in Documents : SetUrl(s, d))
  BY <1>1, <1>r, <1>e, OpensKeeps
<1>2. ASSUME NEW d \in Documents, NEW u \in Licensees, NEW year \in Years, Upload(d, u, year)
      PROVE  RegistrationStands /\ HeldSlotIsLeftAlone
  BY <1>t, <1>e, <1>2 DEF Upload, RegistrationStands
<1>3. ASSUME NEW d \in Documents, NEW order \in Orders, Registered(d), order.primary = source[d].primary,
             order.primary \in order.licensees, Edit, source' = [source EXCEPT ![d] = order], UNCHANGED entry
      PROVE  RegistrationStands /\ HeldSlotIsLeftAlone
  <2>1. edits' # edits
    BY <1>3 DEF Edit
  <2>2. \A x \in Documents : source'[x] = IF x = d THEN order ELSE source[x]
    BY <1>t, <1>3
  <2> QED
    BY <1>t, <1>3, <1>e, <2>1, <2>2 DEF RegistrationStands
<1>4. ASSUME NEW d \in Documents, NEW year \in Years, Classify(d, year) PROVE RegistrationStands /\ HeldSlotIsLeftAlone
  <2> DEFINE order == [source[d] EXCEPT !.year = year]
  <2>1. source[d] \in Orders /\ source[d].primary \in source[d].licensees
    BY <1>t, <1>4 DEF Classify
  <2>2. order \in Orders /\ order.primary = source[d].primary /\ order.primary \in order.licensees
    BY <2>1 DEF Orders
  <2>3. Registered(d) /\ Edit /\ source' = [source EXCEPT ![d] = order] /\ UNCHANGED entry
    BY <1>4 DEF Classify
  <2> HIDE DEF order
  <2> QED
    BY <1>3, <2>2, <2>3
<1>5. ASSUME NEW d \in Documents, NEW us \in SUBSET Licensees, SetLicensees(d, us) PROVE RegistrationStands /\ HeldSlotIsLeftAlone
  <2> DEFINE order == [source[d] EXCEPT !.licensees = us]
  <2>1. source[d] \in Orders /\ source[d].primary \in us
    BY <1>t, <1>5 DEF SetLicensees
  <2>2. order \in Orders /\ order.primary = source[d].primary /\ order.primary \in order.licensees
    BY <2>1 DEF Orders
  <2>3. Registered(d) /\ Edit /\ source' = [source EXCEPT ![d] = order] /\ UNCHANGED entry
    BY <1>5 DEF SetLicensees
  <2> HIDE DEF order
  <2> QED
    BY <1>3, <2>2, <2>3
<1>6. CASE CommitDesk
  <2>1. UNCHANGED source /\ open # Closed /\ open' = Closed
    BY <1>6 DEF CommitDesk
  <2>2. Registers
    BY <1>t, <2>1 DEF Registers, Registered
  <2> QED
    BY <1>6, <1>r, <1>e, <1>f, <2>1, <2>2 DEF CommitDesk
<1>7. ASSUME NEW s \in Slots, NEW k \in Keys, LinkTwin(s, k) PROVE RegistrationStands /\ HeldSlotIsLeftAlone
  <2>1. /\ LibraryInv' /\ open.order \in Documents
        /\ \A d \in Documents : /\ source'[d].primary = source[d].primary /\ source'[d].year = source[d].year
                                /\ source[d].licensees \subseteq source'[d].licensees
    BY <1>7, LinkKeeps
  <2>2. RegistrationStands
    BY <1>t, <2>1 DEF RegistrationStands
  <2>3. source' \in [Documents -> Orders] /\ \A d \in Documents : Registered(d)' => source'[d].primary \in source'[d].licensees
    BY <2>1 DEF LibraryInv, LibraryTyped
  <2>4. ASSUME NEW d \in Documents, Registered(d) PROVE source'[d] # NoSource
    <3>1. source'[d].primary # None
      BY <1>t, <2>1, <2>4, LibraryAssumption DEF Orders, LibraryAssumption
    <3> QED
      BY <3>1 DEF NoSource
  <2>5. Registers
    BY <2>3, <2>4 DEF Registers, Registered
  <2>6. open # Closed /\ open' = Closed /\ Flush
    <3>1. open.order # Closed.order
      BY <2>1, LibraryAssumption DEF Closed, LibraryAssumption
    <3> QED
      BY <1>7, <3>1 DEF LinkTwin
  <2> QED
    BY <1>f, <2>2, <2>5, <2>6
<1>8. ASSUME NEW s \in Slots, RequestAcquisition(s) PROVE RegistrationStands /\ HeldSlotIsLeftAlone
  BY <1>8, <1>r, <1>e DEF RequestAcquisition
<1>9. ASSUME NEW s \in Slots, NEW k \in Keys,
             CancelAcquisition(s, k) \/ SkipAcquired(s, k) \/ FindTwin(s, k) \/ RegistrationRefused(s, k) \/ FetcherDies(s, k)
      PROVE  RegistrationStands /\ HeldSlotIsLeftAlone
  BY <1>9, <1>r, <1>e DEF CancelAcquisition, SkipAcquired, FindTwin, RegistrationRefused, FetcherDies
<1>10. ASSUME NEW s \in Slots, NEW k \in Keys, StartFetch(s, k) PROVE RegistrationStands /\ HeldSlotIsLeftAlone
  BY <1>t, <1>10, <1>r DEF StartFetch, HeldSlotIsLeftAlone
<1>11. ASSUME NEW s \in Slots, NEW k \in Keys, FetchFails(s, k) PROVE RegistrationStands /\ HeldSlotIsLeftAlone
  <2>1. \A t \in Slots : entry'[t].source = entry[t].source
    BY <1>t, <1>11 DEF FetchFails, Entries
  <2> QED
    BY <1>11, <1>r, <2>1 DEF FetchFails, HeldSlotIsLeftAlone
<1>12. ASSUME NEW s \in Slots, NEW k \in Keys, Acquire(s, k) PROVE RegistrationStands /\ HeldSlotIsLeftAlone
  <2>1. fetcher[s][k].at = "fetching" /\ fetcher'[s][k].at = "succeeded"
    <3>1. fetcher' = [fetcher EXCEPT ![s] = [fetcher[s] EXCEPT ![k] = [at |-> "succeeded", url |-> None]]]
      BY <1>12 DEF Acquire, End
    <3>2. fetcher'[s][k] = [at |-> "succeeded", url |-> None]
      BY <1>t, <3>1
    <3> QED
      BY <1>12, <3>2 DEF Acquire
  <2>2. \A t \in Slots \ {s} : entry'[t] = entry[t]
    BY <1>t, <1>12 DEF Acquire
  <2>3. HeldSlotIsLeftAlone
    BY <2>1, <2>2 DEF HeldSlotIsLeftAlone
  <2>4. ASSUME NEW d \in Documents, Registered(d) PROVE source'[d] = source[d]
    <3>1. source' = [source EXCEPT ![fetcher[s][k].url] = Registration(fetcher[s][k].url, s[1])]
      BY <1>12 DEF Acquire
    <3>2. CASE d = fetcher[s][k].url
      BY <1>t, <2>4, <3>1, <3>2 DEF Registration
    <3>3. CASE d # fetcher[s][k].url
      BY <1>t, <3>1, <3>3
    <3> QED
      BY <3>2, <3>3
  <2>5. RegistrationStands
    BY <1>t, <2>4 DEF RegistrationStands
  <2> QED
    BY <2>3, <2>5
<1> QED
  BY <1>1, <1>2, <1>4, <1>5, <1>6, <1>7, <1>8, <1>9, <1>10, <1>11, <1>12 DEF LibraryNext

\* For any slots, documents and bounds: a registered order keeps its primary licensee and loses a
\* licensee or its year only by a person's edit, a slot that is acquired loses its source only to a
\* download or to a commit that loaded it before, and what the library failed to get can be asked for
\* again (reconcile, link_acquired_twin, set_licensees, register_upload, acquire_library_entry).
THEOREM LibraryHoldingsStand == LibrarySpec => HoldingsStand
<1>1. LibraryInv /\ LibraryInv' /\ edits \in Nat /\ [LibraryNext]_libraryVars
        => [RegistrationStands /\ HeldSlotIsLeftAlone /\ FailedDownloadCanBeRetried']_libraryVars
  <2>1. LibraryInv' => FailedDownloadCanBeRetried'
    BY InvTypesLibrary, PTL
  <2> QED
    BY <2>1, StepHolds
<1> QED
  BY <1>1, LibraryKeeps, EditsCounted, PTL DEF LibrarySpec, HoldingsStand

-----------------------------------------------------------------------------
(* The service these parts make, as MCDesk composes them: a step of it is  *)
(* a step of one part and leaves the others' rows alone, so that whatever  *)
(* holds of a part holds of it in the whole.                               *)

LEMMA DeskIsItsParts ==
  DeskSpec => TrackSpec /\ OrgSpec /\ LibrarySpec /\ RegistrationSpec /\ PetitionInit /\ [][PetitionNext]_petitionVars
<1>1. DeskInit => TrackInit /\ PetitionInit /\ OrgInit /\ LibraryInit /\ RegistrationInit
  BY DEF DeskInit
<1>2. [DeskNext]_deskVars => /\ [TrackNext]_trackVars /\ [PetitionNext]_petitionVars /\ [OrgNext]_orgVars
                            /\ [LibraryNext]_libraryVars /\ [RegistrationNext]_registrationVars
  BY DEF DeskNext, deskVars
<1> QED
  BY <1>1, <1>2, PTL DEF DeskSpec, TrackSpec, OrgSpec, LibrarySpec, RegistrationSpec

\* Requests are asked up to a bound and each of them commits at most one change.
OrgCounts ==
    LET asking == {p \in People : request[p] # NotAsking}
    IN IsFiniteSet(asking) /\ changes \in Nat /\ changes + Cardinality(asking) <= MaxOrgChanges + MaxInFlight

LEMMA OrgStepCounts == OrgInv /\ OrgCounts /\ [OrgNext]_orgVars => OrgCounts'
<1> SUFFICES ASSUME OrgInv, OrgCounts, [OrgNext]_orgVars PROVE OrgCounts'
  OBVIOUS
<1> DEFINE asking == {p \in People : request[p] # NotAsking}
<1>0. IsFiniteSet(asking) /\ Cardinality(asking) \in Nat /\ changes \in Nat /\ MaxOrgChanges \in Nat /\ MaxInFlight \in Nat
  BY FS_CardinalityType, OrganisationsAssumption DEF OrgCounts
<1>1. ASSUME NEW p \in People, NEW q \in People, NEW to \in {"none"} \cup DOMAIN OrgRank, AskMember(p, q, to) PROVE OrgCounts'
  <2>1. asking' = asking \cup {p} /\ changes' = changes /\ changes < MaxOrgChanges /\ Cardinality(asking) < MaxInFlight
    BY <1>1 DEF AskMember, OrgInv, OrgTyped, NotAsking
  <2> HIDE DEF asking
  <2>2. /\ IsFiniteSet(asking \cup {p}) /\ Cardinality(asking \cup {p}) \in Nat
        /\ Cardinality(asking \cup {p}) = IF p \in asking THEN Cardinality(asking) ELSE Cardinality(asking) + 1
    BY <1>0, FS_AddElement, FS_CardinalityType
  <2>3. IsFiniteSet(asking') /\ changes' + Cardinality(asking') <= MaxOrgChanges + MaxInFlight
    BY <1>0, <2>1, <2>2
  <2> QED
    BY <1>0, <2>1, <2>3 DEF OrgCounts, asking
<1>2. ASSUME NEW p \in People, CommitMember(p) \/ RollBackMember(p) PROVE OrgCounts'
  <2>1. p \in asking /\ asking' = asking \ {p} /\ changes' \in {changes, changes + 1}
    BY <1>2 DEF CommitMember, RollBackMember, OrgInv, OrgTyped
  <2>2. IsFiniteSet(asking') /\ Cardinality(asking') = Cardinality(asking) - 1
    BY <1>0, <2>1, FS_RemoveElement, ZenonT(60)
  <2> QED
    BY <1>0, <2>1, <2>2 DEF OrgCounts
<1>3. CASE UNCHANGED orgVars
  BY <1>3 DEF orgVars, OrgCounts
<1> QED
  BY <1>1, <1>2, <1>3 DEF OrgNext

\* Members, requests and what they read stay well typed (add_member, remove_member).
THEOREM OrganisationsTypeCorrect == OrgSpec => []OrgTypeOK
<1>1. OrgInit => OrgCounts
  <2> SUFFICES ASSUME OrgInit PROVE OrgCounts
    OBVIOUS
  <2>1. {p \in People : request[p] # NotAsking} = {}
    BY DEF OrgInit
  <2> QED
    BY <2>1, FS_EmptySet, OrganisationsAssumption DEF OrgInit, OrgCounts
<1>2. OrgInv /\ OrgCounts => OrgTypeOK
  <2> SUFFICES ASSUME OrgInv, OrgCounts PROVE OrgTypeOK
    OBVIOUS
  <2>1. changes \in 0 .. MaxOrgChanges + MaxInFlight
    BY FS_CardinalityType, OrganisationsAssumption DEF OrgCounts
  <2> QED
    BY <2>1 DEF OrgInv, OrgTyped, OrgTypeOK, Roles, Asked
<1> QED
  BY <1>1, <1>2, InitEstablishesOrg, StepKeepsOrg, OrgStepCounts, PTL DEF OrgSpec

\* Whichever part is at work keeps its rows well typed (tracks, fills, members, library, uploads).
THEOREM DeskTypeCorrect == DeskSpec => []DeskTypeOK
<1>2. PetitionInit /\ [][PetitionNext]_petitionVars => []PetitionTypeOK
  <2>1. PetitionInv => PetitionTypeOK
    BY DEF PetitionInv
  <2> QED
    BY <2>1, InitEstablishesPetition, StepKeepsPetition, PTL
<1>3. TrackTypeOK /\ PetitionTypeOK /\ OrgTypeOK /\ LibraryTypeOK /\ RegistrationTypeOK => DeskTypeOK
  BY DEF DeskTypeOK
<1> QED
  BY <1>2, <1>3, DeskIsItsParts, OrganisationsTypeCorrect, TrackTypeCorrect, LibraryTypeCorrect, RegistrationTypeCorrect, PTL
=============================================================================
