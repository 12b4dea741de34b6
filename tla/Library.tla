------------------------------- MODULE Library -------------------------------
(***************************************************************************)
(* The regulatory library (library.py, routers/library.py) and its         *)
(* acquisition job (stages/acquire.py): slots that are expected, located   *)
(* at a URL, acquired as a source, or failed.  The job commits an attempt, *)
(* downloads outside any transaction, and registers what it got as an      *)
(* upload of the same bytes would be.                                      *)
(*                                                                         *)
(* One commission and one kind of document.  A URL serves one document, so *)
(* a document stands for its bytes, its hash and its URL.  A job is known  *)
(* by the idempotency key it was queued with.                              *)
(*                                                                         *)
(* No transaction locks what it reads, and a commit writes the columns     *)
(* that differ from what was loaded.  Seeding, reconciling, setting a URL  *)
(* and linking a twin write to a slot what they decided from the slot they *)
(* loaded: each is a load and a commit, one of them open at a time (open), *)
(* with the other calls and jobs between.  The rest come out as if they    *)
(* ran at one moment.                                                      *)
(***************************************************************************)
EXTENDS Naturals, FiniteSets

CONSTANTS
    Licensees,
    Documents,
    MaxKeys,        \* bound: attempts requested per slot
    MaxChanges,     \* bound: uploads, classifications, licensees and URLs set
    None

ASSUME LibraryAssumption == None \notin Documents \cup Licensees /\ MaxKeys \in Nat /\ MaxChanges \in Nat

VARIABLES
    entry,      \* per slot, the library entry
    source,     \* per document, the registered source
    fetcher,    \* per slot and key, the acquisition job
    open,       \* the transaction that has loaded and not committed: what it will write to each slot
                \* (writes), the order it links (order), and the slots it loaded as acquired (held)
    edits

libraryVars == <<entry, source, fetcher, open, edits>>

\* What an order is classified as: of a year, of no year that anybody stated, or not at all.
Years == {"fy", "", "unclassified"}
\* A slot is a licensee and a year.
Slots == Licensees \X {"fy", ""}
Keys == 1 .. MaxKeys
NoEntry == [status |-> "absent", url |-> None, source |-> None, attempts |-> 0]
NoSource == [licensees |-> {}, primary |-> None, year |-> "unclassified"]
NoFetcher == [at |-> "none", url |-> None]
\* The columns of a slot that are not written: a status is never set back to "absent", nor a URL or a source to none.
Untouched == [new |-> FALSE, status |-> "absent", url |-> None, source |-> None]
Closed == [writes |-> [s \in Slots |-> Untouched], order |-> None, held |-> {}]

\* Jobs that ended; "unbegun" one that was cancelled or died before its first commit.
Over == {"succeeded", "failed", "unbegun"}

LibraryInit ==
    /\ entry = [s \in Slots |-> NoEntry]
    /\ source = [d \in Documents |-> NoSource]
    /\ fetcher = [s \in Slots |-> [k \in Keys |-> NoFetcher]]
    /\ open = Closed
    /\ edits = 0

Registered(d) == source[d] # NoSource
Edit == edits < MaxChanges /\ edits' = edits + 1

\* The columns of a slot that a transaction changed since it loaded it.
Changed(e, was) ==
    [new |-> was = NoEntry /\ e # NoEntry,
     status |-> IF e.status = was.status THEN "absent" ELSE e.status,
     url |-> IF e.url = was.url THEN None ELSE e.url,
     source |-> IF e.source = was.source THEN None ELSE e.source]

\* A commit: the columns written, over what the slot has become.
Written(e, c) ==
    [e EXCEPT !.status = IF c.status = "absent" THEN @ ELSE c.status,
              !.url = IF c.url = None THEN @ ELSE c.url,
              !.source = IF c.source = None THEN @ ELSE c.source]

\* A transaction that has loaded the slots and will leave them as entries, with the order it links.
Opened(entries, d) ==
    [writes |-> [s \in Slots |-> Changed(entries[s], entry[s])], order |-> d,
     held |-> {s \in Slots : entry[s].status = "acquired"}]

\* uq_library_entry_slot: a slot created by two transactions is created by the first.
Clash == \E s \in Slots : open.writes[s].new /\ entry[s] # NoEntry

Flush == entry' = [s \in Slots |-> Written(entry[s], open.writes[s])]

\* A person's call that has loaded commits, or is rolled back by the clash.
CommitDesk ==
    /\ open # Closed /\ open.order = None
    /\ open' = Closed
    /\ IF Clash THEN UNCHANGED entry ELSE Flush
    /\ UNCHANGED <<source, fetcher, edits>>

\* reconcile, on one source: its slot takes it when it holds none.
\* Mutant of Takes: the slot takes the source whatever it holds.
TakesAlways(e, d) == e.source # d

Takes(e, d) == e.source = None

Holding(e, d) == [e EXCEPT !.status = "acquired", !.source = d, !.url = IF e = NoEntry THEN d ELSE e.url]

Classified(d) == Registered(d) /\ source[d].year # "unclassified"

Linked(entries, d) ==
    LET slot == <<source[d].primary, source[d].year>>
    IN IF Classified(d) /\ Takes(entries[slot], d) THEN [entries EXCEPT ![slot] = Holding(@, d)] ELSE entries

\* reconcile, over every source, in whatever order the rows come.
Reconciled(entries) ==
    {Linked(Linked(entries, p[1]), p[2]) : p \in {q \in Documents \X Documents : q[1] # q[2] \/ Cardinality(Documents) = 1}}

\* seed: the dated slots, expected; then reconcile.
Seed ==
    /\ open = Closed
    /\ \E entries \in Reconciled([s \in Slots |->
          IF s[2] = "fy" /\ entry[s] = NoEntry THEN [NoEntry EXCEPT !.status = "expected"] ELSE entry[s]]) :
          entries # entry /\ open' = Opened(entries, None)
    /\ UNCHANGED <<entry, source, fetcher, edits>>

Reconcile ==
    /\ open = Closed
    /\ \E entries \in Reconciled(entry) : entries # entry /\ open' = Opened(entries, None)
    /\ UNCHANGED <<entry, source, fetcher, edits>>

\* upsert_entry with a URL: a new entry has no status yet and is left to its default.
Located(e, d) ==
    [e EXCEPT !.url = d, !.status = CASE e.status = "absent" -> "expected"
                                      [] e.status \in {"expected", "failed"} -> "located"
                                      [] OTHER -> e.status]

SetUrl(s, d) ==
    /\ open = Closed /\ Edit
    /\ Located(entry[s], d) # entry[s]
    /\ open' = Opened([entry EXCEPT ![s] = Located(@, d)], None)
    /\ UNCHANGED <<entry, source, fetcher>>

\* register_upload by a person, with or without what the order is and the year it decides.
Upload(d, u, year) ==
    /\ Edit /\ ~Registered(d)
    /\ source' = [source EXCEPT ![d] = [licensees |-> {u}, primary |-> u, year |-> year]]
    /\ UNCHANGED <<entry, fetcher, open>>

\* classify_source: a person states what the order is and its year, or takes it back.
Classify(d, year) ==
    /\ Edit /\ Registered(d) /\ source[d].year # year
    /\ source' = [source EXCEPT ![d].year = year]
    /\ UNCHANGED <<entry, fetcher, open>>

\* set_licensees: exactly these, the primary among them.
SetLicensees(d, us) ==
    /\ Edit /\ Registered(d) /\ source[d].primary \in us /\ source[d].licensees # us
    /\ source' = [source EXCEPT ![d].licensees = us]
    /\ UNCHANGED <<entry, fetcher, open>>

\* The key of the next acquisition of an entry.
KeyOf(e) == e.attempts + 1

\* request_acquisition: a key used before brings back its job, whatever became of it.
RequestAcquisition(s) ==
    LET k == KeyOf(entry[s])
    IN /\ entry[s].url # None /\ entry[s].status # "acquired"
       /\ k \in Keys /\ fetcher[s][k] = NoFetcher
       /\ fetcher' = [fetcher EXCEPT ![s][k].at = "queued"]
       /\ UNCHANGED <<entry, source, open, edits>>

\* A job is over, whatever it was to bring.
End(s, k, outcome) == fetcher' = [fetcher EXCEPT ![s][k] = [at |-> outcome, url |-> None]]

CancelAcquisition(s, k) ==
    /\ fetcher[s][k].at = "queued"
    /\ End(s, k, "unbegun")
    /\ UNCHANGED <<entry, source, open, edits>>

\* Mutant of Twins: another entry with this URL, acquired or not.
TwinsByUrl(s) == {t \in Slots : t # s /\ entry[t].url = entry[s].url}

\* link_acquired_twin: another entry with this URL that was acquired.
Twins(s) == {t \in Slots : t # s /\ entry[t].url = entry[s].url
                            /\ entry[t].status = "acquired" /\ entry[t].source # None}

\* First transaction of the job, nothing left to do.
SkipAcquired(s, k) ==
    /\ fetcher[s][k].at = "queued" /\ entry[s].status = "acquired"
    /\ End(s, k, "succeeded")
    /\ UNCHANGED <<entry, source, open, edits>>

\* First transaction, as it loads: a twin, whose source it will link.
FindTwin(s, k) ==
    /\ open = Closed
    /\ fetcher[s][k].at = "queued" /\ entry[s].status # "acquired"
    /\ \E t \in Twins(s) :
          open' = Opened([entry EXCEPT ![s].source = entry[t].source, ![s].status = "acquired"], entry[t].source)
    /\ fetcher' = [fetcher EXCEPT ![s][k].at = "linking"]
    /\ UNCHANGED <<entry, source, edits>>

\* Its commit: the slot has the source, and a licensee that is not the primary joins the order.
LinkTwin(s, k) ==
    /\ fetcher[s][k].at = "linking"
    /\ Flush
    /\ source' = [source EXCEPT ![open.order].licensees = @ \cup {s[1]}]
    /\ End(s, k, "succeeded")
    /\ open' = Closed
    /\ UNCHANGED edits

\* Mutant of Attempted: the attempt is not counted.
AttemptedUncounted(e) == e

\* First transaction: the attempt counts from here, before the download.
Attempted(e) == [e EXCEPT !.attempts = @ + 1]

StartFetch(s, k) ==
    /\ fetcher[s][k].at = "queued" /\ entry[s].status # "acquired" /\ Twins(s) = {}
    /\ entry' = [entry EXCEPT ![s] = Attempted(@)]
    /\ fetcher' = [fetcher EXCEPT ![s][k] = [at |-> "fetching", url |-> entry[s].url]]
    /\ UNCHANGED <<source, open, edits>>

\* fetch raised: the entry says so, whatever happened to it meanwhile.
FetchFails(s, k) ==
    /\ fetcher[s][k].at = "fetching"
    /\ entry' = [entry EXCEPT ![s].status = "failed"]
    /\ End(s, k, "failed")
    /\ UNCHANGED <<source, open, edits>>

\* register_upload of the bytes fetched: known bytes bring their source back as it is.
Registration(d, u) ==
    IF Registered(d) THEN source[d] ELSE [licensees |-> {u}, primary |-> u, year |-> ""]

\* acquire.
Acquire(s, k) ==
    LET d == fetcher[s][k].url
    IN /\ fetcher[s][k].at = "fetching"
       /\ source' = [source EXCEPT ![d] = Registration(d, s[1])]
       /\ entry' = [entry EXCEPT ![s].source = d, ![s].status = "acquired"]
       /\ End(s, k, "succeeded")
       /\ UNCHANGED <<open, edits>>

\* register_upload refused: the status set beside the raise is rolled back with it.
RegistrationRefused(s, k) ==
    /\ fetcher[s][k].at = "fetching"
    /\ End(s, k, "failed")
    /\ UNCHANGED <<entry, source, open, edits>>

\* The worker dies before the first commit or during the download; one attempt is all the job has.
FetcherDies(s, k) ==
    /\ fetcher[s][k].at \in {"queued", "linking", "fetching"}
    /\ End(s, k, IF fetcher[s][k].at = "fetching" THEN "failed" ELSE "unbegun")
    /\ open' = IF fetcher[s][k].at = "linking" THEN Closed ELSE open
    /\ UNCHANGED <<entry, source, edits>>

LibraryNext ==
    \/ Seed \/ Reconcile \/ CommitDesk
    \/ \E d \in Documents :
          \/ \E s \in Slots : SetUrl(s, d)
          \/ \E year \in Years : Classify(d, year) \/ \E u \in Licensees : Upload(d, u, year)
          \/ \E us \in SUBSET Licensees : SetLicensees(d, us)
    \/ \E s \in Slots :
          \/ RequestAcquisition(s)
          \/ \E k \in Keys :
                \/ CancelAcquisition(s, k) \/ SkipAcquired(s, k) \/ FindTwin(s, k) \/ LinkTwin(s, k) \/ StartFetch(s, k)
                \/ FetchFails(s, k) \/ Acquire(s, k) \/ RegistrationRefused(s, k) \/ FetcherDies(s, k)

LibrarySpec == LibraryInit /\ [][LibraryNext]_libraryVars

-----------------------------------------------------------------------------
(* Properties.                                                             *)

\* Type correctness of the library: an acquired slot has a registered source,
\* and a job that is linking is the one whose transaction is open.
LibraryTypeOK ==
    /\ entry \in [Slots -> [status : {"absent", "expected", "located", "acquired", "failed"},
                            url : Documents \cup {None}, source : Documents \cup {None}, attempts : 0 .. MaxKeys]]
    /\ source \in [Documents -> [licensees : SUBSET Licensees, primary : Licensees \cup {None}, year : Years]]
    /\ fetcher \in [Slots -> [Keys -> [at : {"none", "queued", "linking", "fetching"} \cup Over,
                                       url : Documents \cup {None}]]]
    /\ \A s \in Slots : entry[s].status = "acquired" => entry[s].source # None /\ Registered(entry[s].source)
    /\ \A s \in Slots, k \in Keys : fetcher[s][k].at = "linking" => open.order \in Documents

\* A download that failed or was refused can be asked for again: while the
\* entry has no source its next request finds no ended job under its key,
\* unless that job was cancelled or died before its first commit
\* (request_acquisition, acquire_library_entry).
FailedDownloadCanBeRetried ==
    \A s \in Slots :
        LET k == KeyOf(entry[s])
        IN entry[s].source = None /\ k \in Keys => fetcher[s][k].at \notin {"succeeded", "failed"}

\* What an order is registered as stands: its primary licensee is never
\* rewritten and stays among its licensees, and nothing but a person's edit
\* takes a licensee from it or moves it to another year: not an upload or a
\* download of the same bytes, not a twin's licensee joining beside it
\* (register_upload's dedup, set_licensees, link_acquired_twin).
RegistrationStands ==
    \A d \in Documents : Registered(d) =>
        /\ source'[d].primary = source[d].primary
        /\ source[d].primary \in source'[d].licensees
        /\ edits' = edits => source[d].licensees \subseteq source'[d].licensees /\ source'[d].year = source[d].year

\* A slot that says acquired changes its source only when a download asked
\* for before comes in, or when a reconciliation or a twin that loaded it
\* before it was acquired commits: one that finds the slot acquired leaves
\* the source to a person (reconcile: "a person decides").
HeldSlotIsLeftAlone ==
    \A s \in Slots :
        entry[s].status = "acquired" /\ entry'[s].source # entry[s].source =>
            \/ \E k \in Keys : fetcher[s][k].at = "fetching" /\ fetcher'[s][k].at = "succeeded"
            \/ open # Closed /\ open' = Closed /\ s \notin open.held

\* What the library holds is never taken back: a registered order stands, an
\* acquired slot keeps its source, and what the library failed to get can be
\* asked for again.
HoldingsStand == [][RegistrationStands /\ HeldSlotIsLeftAlone /\ FailedDownloadCanBeRetried']_libraryVars
=============================================================================
