--------------------------- MODULE ArchiveReaders ---------------------------
(***************************************************************************)
(* The readers of the service next to its write path: verification of the  *)
(* manifest with and without the mutex of the case, preview of the         *)
(* manifest, search of the audit, and the dry run of a capture.  A reader  *)
(* takes the case from the store and the events from the audit in separate *)
(* steps, so handlers of ArchiveService, failed appends and restarts fall  *)
(* between them; the search reads the audit file itself, line by line.     *)
(*                                                                         *)
(* Readers change nothing ArchiveService knows about; a dry run leaves a   *)
(* receipt of its own.  A locked reader keeps handlers out of its case.    *)
(***************************************************************************)
EXTENDS ArchiveService, FiniteSets

CONSTANTS
    Readers,    \* the goroutines serving them
    Reads       \* the read requests clients may send, any number of times

Kinds == {"VERIFY", "PREVIEW", "MANIFEST", "SEARCH", "DRYRUN"}

(* The receipt of a dry run: the report and the request it answers.        *)
DryReceipt == [read : Reads, report : [rev : Nat, valid : BOOLEAN]]

ASSUME ReadsAssumption ==
    /\ \A q \in Reads : q.kind \in Kinds /\ q.case \in Cases
    /\ None \notin Reads /\ None \notin Readers /\ None \notin DryReceipt

VARIABLES
    readLock,   \* App.locks again: the reader that holds the mutex of a case
    rpc,        \* where each reader is
    rreq,       \* the request it serves
    seen,       \* what it has read so far
    reply,      \* the answer a reader has given in the last step, or None
    dryIdem,    \* store.Store.idem: the receipts of dry runs
    dryAnswers  \* the reports clients have received

readerVars == <<readLock, rpc, rreq, seen, reply, dryIdem, dryAnswers>>
readVars == <<vars, readerVars>>

DryKey(q) == <<q.case, q.id>>

DryRuns == {q \in Reads : q.kind = "DRYRUN"}

DryKeys == {DryKey(q) : q \in DryRuns}

(* quiet is not in the code: no handler has held the mutex of the case     *)
(* since the reader took the case from the store.                          *)
Nothing == [case |-> None, head |-> None, valid |-> FALSE, quiet |-> TRUE]

(***************************************************************************)
(* The audit as readers see it.                                            *)
(***************************************************************************)

(* Audit.HeadAt: the head after the first n events, "" when there are      *)
(* fewer.  The events stand for their digest.                              *)
HeadAt(audit, c, n) ==
    LET trail == Trail(audit, c)
    IN  IF n > Cardinality(trail) THEN None
        ELSE {e \in trail : Cardinality({d \in trail : d.rev < e.rev}) < n}

(* A piece of the file that persistedEvents can parse: it is a whole line, *)
(* so what follows an event without newline spoils them both.              *)
WholeLine(file, i) ==
    /\ file[i].event # None
    /\ i > 1 => file[i - 1].newline
    /\ i < Len(file) => file[i].newline

Unparsed == [case |-> None, op |-> None, rev |-> 0]

Persisted(file) ==
    [i \in DOMAIN file |->
        IF WholeLine(file, i) THEN file[i].event ELSE Unparsed]

(* Fault: lines that cannot be parsed are passed over                    *)
PassOver(file) == FALSE

Unreadable(file) == \E i \in DOMAIN file : ~WholeLine(file, i)

(* AuditSearch: every line of the file can be parsed, the events of the    *)
(* case are those of its revisions by transitions of the table, they are   *)
(* those in memory, and those up to the seal are the ones it was anchored  *)
(* at.  Their types are all on the list of domain/audit_query.go, which    *)
(* names every type the service appends.                                   *)
Intact(c, case) ==
    LET persisted == Persisted(auditFile)
    IN  /\ ~Unreadable(auditFile)
        /\ Validate(persisted, c, case.rev)
        /\ Trail(persisted, c) = Trail(auditMem, c)
        /\ case.sealed => HeadAt(persisted, c, case.rev - 1) = case.anchor

ReadInit ==
    /\ Init
    /\ readLock = [c \in Cases |-> None]
    /\ rpc = [r \in Readers |-> "idle"]
    /\ rreq = [r \in Readers |-> None]
    /\ seen = [r \in Readers |-> Nothing]
    /\ reply = None
    /\ dryIdem = [k \in DryKeys |-> None]
    /\ dryAnswers = {}

(***************************************************************************)
(* The steps of a reader.                                                  *)
(***************************************************************************)
Answer(r, outcome, events) ==
    /\ reply' = [read |-> rreq[r], quiet |-> seen[r].quiet,
                 outcome |-> outcome, events |-> events]
    /\ readLock' = [c \in Cases |-> IF readLock[c] = r THEN None ELSE readLock[c]]
    /\ rpc' = [rpc EXCEPT ![r] = "idle"]
    /\ rreq' = [rreq EXCEPT ![r] = None]
    /\ seen' = [seen EXCEPT ![r] = Nothing]

Proceed(r, label) ==
    /\ rpc' = [rpc EXCEPT ![r] = label]
    /\ reply' = None
    /\ UNCHANGED <<rreq, dryIdem, dryAnswers>>

(* The first label of each kind of reader.                                 *)
Entry(q) ==
    CASE q.kind \in {"VERIFY", "PREVIEW"} -> "get"
      [] q.kind \in {"MANIFEST", "SEARCH"} -> "lock"
      [] q.kind = "DRYRUN" -> "saved"

(* A dry run comes as a write and meets the router's sealed gate.          *)
StartRead(r, q) ==
    /\ rpc[r] = "idle"
    /\ q.kind = "DRYRUN" => ~cases[q.case].sealed
    /\ rpc' = [rpc EXCEPT ![r] = Entry(q)]
    /\ rreq' = [rreq EXCEPT ![r] = q]
    /\ reply' = None
    /\ UNCHANGED <<readLock, seen, dryIdem, dryAnswers>>

LockForRead(r) ==
    LET c == rreq[r].case
    IN  /\ rpc[r] = "lock"
        /\ caseLock[c] = None /\ readLock[c] = None
        /\ readLock' = [readLock EXCEPT ![c] = r]
        /\ Proceed(r, IF rreq[r].kind = "DRYRUN" THEN "again" ELSE "get")
        /\ UNCHANGED seen

GetCase(r) ==
    LET c == rreq[r].case
    IN  /\ rpc[r] = "get"
        /\ seen' = [seen EXCEPT ![r].case = cases[c],
                                ![r].quiet = caseLock[c] = None]
        /\ Proceed(r, CASE rreq[r].kind = "PREVIEW" -> "head"
                        [] rreq[r].kind = "SEARCH"  -> "inspect"
                        [] OTHER -> "validate")
        /\ UNCHANGED readLock

(* VerifyDetails, ManifestVerificationDetails, integrityCheck and          *)
(* ComponentProof: nothing to verify, or the chain first and its head at   *)
(* the seal afterwards.                                                    *)
ValidateChain(r) ==
    LET case == seen[r].case
    IN  /\ rpc[r] = "validate" /\ rreq[r].kind # "PREVIEW"
        /\ \/ /\ ~case.sealed
              /\ Answer(r, "UNAVAILABLE", None)
              /\ UNCHANGED <<dryIdem, dryAnswers>>
           \/ /\ case.sealed
              /\ seen' = [seen EXCEPT
                   ![r].valid = Validate(auditMem, rreq[r].case, case.rev)]
              /\ Proceed(r, "anchor")
              /\ UNCHANGED readLock

Anchored(r) ==
    /\ seen[r].valid
    /\ HeadAt(auditMem, rreq[r].case, seen[r].case.rev - 1) = seen[r].case.anchor

CompareAnchor(r) ==
    /\ rpc[r] = "anchor"
    /\ Answer(r, IF Anchored(r) THEN "VALID" ELSE "INVALID", None)
    /\ UNCHANGED <<dryIdem, dryAnswers>>

(* PreviewManifest: the head it anchors the candidate at is read before    *)
(* the chain is validated.                                                 *)
ReadHead(r) ==
    /\ rpc[r] = "head"
    /\ seen' = [seen EXCEPT ![r].head = Trail(auditMem, rreq[r].case)]
    /\ Proceed(r, "validate")
    /\ UNCHANGED readLock

(* Fault: the chain is not validated                                     *)
AnyChain(r) == TRUE

Continuous(r) == Validate(auditMem, rreq[r].case, seen[r].case.rev)

(* Whether the evidence allows a manifest is CaseLifecycle's business.     *)
Preview(r) ==
    /\ rpc[r] = "validate" /\ rreq[r].kind = "PREVIEW"
    /\ \/ Answer(r, "BLOCKED", None)
       \/ /\ ~seen[r].case.sealed /\ Continuous(r)
          /\ Answer(r, "SEALABLE", seen[r].head)
    /\ UNCHANGED <<dryIdem, dryAnswers>>

Search(r) ==
    LET c == rreq[r].case
    IN  /\ rpc[r] = "inspect"
        /\ Answer(r, IF Intact(c, seen[r].case)
                     THEN "VERIFIED" ELSE "INTEGRITY_ERROR",
                     Trail(Persisted(auditFile), c))
        /\ UNCHANGED <<dryIdem, dryAnswers>>

(***************************************************************************)
(* The dry run of a capture.                                               *)
(***************************************************************************)
ReportTo(r, report) ==
    /\ Answer(r, "REPORT", None)
    /\ dryAnswers' = dryAnswers \cup {[read |-> rreq[r], report |-> report]}

RefuseRead(r) ==
    /\ Answer(r, "REFUSED", None)
    /\ UNCHANGED <<dryIdem, dryAnswers>>

SavedReport(r) == dryIdem[DryKey(rreq[r])]

ReturnSavedReport(r) ==
    /\ SavedReport(r) # None
    /\ \/ /\ SavedReport(r).read = rreq[r]
          /\ ReportTo(r, SavedReport(r).report)
          /\ UNCHANGED dryIdem
       \/ /\ SavedReport(r).read # rreq[r]
          /\ RefuseRead(r)

LookupReport(r) ==
    /\ rpc[r] = "saved"
    /\ \/ ReturnSavedReport(r)
       \/ /\ SavedReport(r) = None
          /\ Proceed(r, "lock")
          /\ UNCHANGED <<readLock, seen>>

(* Fault: the receipt is not looked up again under the mutex             *)
LoadAtOnce(r) ==
    LET case == cases[rreq[r].case]
    IN  /\ rpc[r] = "again"
        /\ \/ case.rev # rreq[r].rev /\ RefuseRead(r)
           \/ /\ case.rev = rreq[r].rev
              /\ seen' = [seen EXCEPT ![r].case = case]
              /\ Proceed(r, "check")
              /\ UNCHANGED readLock

(* Under the mutex: the receipt again, then the case at the expected       *)
(* revision.                                                               *)
LookupReportAgain(r) ==
    LET case == cases[rreq[r].case]
    IN  /\ rpc[r] = "again"
        /\ \/ ReturnSavedReport(r)
           \/ /\ SavedReport(r) = None
              /\ case.rev # rreq[r].rev
              /\ RefuseRead(r)
           \/ /\ SavedReport(r) = None
              /\ case.rev = rreq[r].rev
              /\ seen' = [seen EXCEPT ![r].case = case]
              /\ Proceed(r, "check")
              /\ UNCHANGED readLock

(* The capture on a clone of the case, and its asset against all cases,    *)
(* without createMu.                                                       *)
DryRun(r) ==
    /\ rpc[r] = "check"
    /\ \E accepted \in BOOLEAN :
         seen' = [seen EXCEPT
           ![r].valid = accepted /\ ~EvidenceConflict(rreq[r])]
    /\ Proceed(r, "save")
    /\ UNCHANGED readLock

SaveReport(r) ==
    LET report == [rev |-> seen[r].case.rev, valid |-> seen[r].valid]
    IN  /\ rpc[r] = "save"
        /\ \/ /\ ReportTo(r, report)
              /\ dryIdem' = [dryIdem EXCEPT ![DryKey(rreq[r])] =
                               [read |-> rreq[r], report |-> report]]
           \/ RefuseRead(r)

ReadStep(r) ==
    \/ LockForRead(r) \/ GetCase(r) \/ ValidateChain(r) \/ CompareAnchor(r)
    \/ ReadHead(r) \/ Preview(r) \/ Search(r) \/ LookupReport(r)
    \/ LookupReportAgain(r) \/ DryRun(r) \/ SaveReport(r)

(***************************************************************************)
(* The handlers next to them.                                              *)
(***************************************************************************)

(* Fault: readers do not hold the mutex of the case                      *)
NoReader(c) == TRUE

FreeOfReaders(c) == readLock[c] = None

(* A handler enters a case no reader holds, and ends the quiet of those    *)
(* that read it without the mutex.                                         *)
EnterCase(w) ==
    LET c == req[w].case
    IN  /\ LockCase(w)
        /\ FreeOfReaders(c)
        /\ seen' = [r \in Readers |->
             IF rreq[r] # None /\ rreq[r].case = c
             THEN [seen[r] EXCEPT !.quiet = FALSE] ELSE seen[r]]
        /\ reply' = None
        /\ UNCHANGED <<readLock, rpc, rreq, dryIdem, dryAnswers>>

ReadersWait ==
    /\ reply' = None
    /\ UNCHANGED <<readLock, rpc, rreq, seen, dryIdem, dryAnswers>>

HandlerStep(w) ==
    \/ EnterCase(w)
    \/ Step(w) /\ pc[w] # "caseLock" /\ ReadersWait

(* The process stops; the receipts of dry runs are in the snapshot.        *)
CrashAll ==
    /\ Crash
    /\ readLock' = [c \in Cases |-> None]
    /\ rpc' = [r \in Readers |-> "idle"]
    /\ rreq' = [r \in Readers |-> None]
    /\ seen' = [r \in Readers |-> Nothing]
    /\ reply' = None
    /\ UNCHANGED <<dryIdem, dryAnswers>>

ReadNext ==
    \/ \E w \in Workers :
         \/ HandlerStep(w)
         \/ \E q \in Requests :
              Receive(w, q) /\ ReadersWait
    \/ \E r \in Readers :
         /\ ReadStep(r) \/ \E q \in Reads : StartRead(r, q)
         /\ UNCHANGED vars
    \/ CrashAll

ReadSpec == ReadInit /\ [][ReadNext]_readVars

(***************************************************************************)
(* Properties.                                                             *)
(***************************************************************************)

AuditIsComplete(c) == Trail(auditMem, c) = Complete(c, cases[c].rev)

(* A reader that no handler of its case has overlapped, with the mutex or  *)
(* without, tells the truth: it verifies a sealed case exactly when its    *)
(* audit is complete, and a candidate manifest is anchored at exactly the  *)
(* complete audit of the case.                                             *)
QuietReadsAreExact ==
    reply # None /\ reply.quiet =>
        LET c == reply.read.case
        IN  CASE reply.outcome = "VALID" -> cases[c].sealed /\ AuditIsComplete(c)
              [] reply.outcome = "INVALID" -> cases[c].sealed /\ ~AuditIsComplete(c)
              [] reply.outcome = "UNAVAILABLE" -> ~cases[c].sealed
              [] reply.outcome = "SEALABLE" ->
                   reply.events = Complete(c, cases[c].rev)
              [] OTHER -> TRUE

(* Whatever has failed, and whoever has overlapped the reader: a manifest  *)
(* that is called valid is that of a case sealed over a complete audit,    *)
(* and a page of the audit that is called verified is the complete record  *)
(* of the case, each revision with the request that produced it, of which  *)
(* a restart would lose nothing.                                           *)
VerifiedMeansComplete ==
    reply # None =>
        LET c == reply.read.case
        IN  CASE reply.outcome = "VALID" ->
                   /\ cases[c].sealed /\ AuditIsComplete(c)
                   /\ cases[c].anchor = Complete(c, cases[c].rev - 1)
              [] reply.outcome = "VERIFIED" ->
                   /\ reply.events = Complete(c, cases[c].rev)
                   /\ \A n \in Decodable(auditFile) :
                        Trail(Replay(auditFile, n), c) = reply.events
              [] OTHER -> TRUE

(* Until an append fails or the process stops, a reader that holds the     *)
(* mutex of the case raises one alarm only, and always: a search reports   *)
(* an integrity error exactly for the cases whose recapture was authorized *)
(* after a revocation, which the domain accepts and the table of the audit *)
(* does not.  A manifest is never invalid, as no such case is sealed.      *)
LockedReadersAreExact ==
    reply # None /\ crashes = 0 /\ auditFaults = 0 =>
        /\ reply.read.kind = "SEARCH" =>
             (reply.outcome = "INTEGRITY_ERROR" <=>
                \E e \in Complete(reply.read.case, cases[reply.read.case].rev) :
                    e.op = "REAUTHORIZE")
        /\ reply.read.kind = "MANIFEST" => reply.outcome # "INVALID"

(* All answers to one dry run are the same report, though duplicates run   *)
(* concurrently, the first lookup is made without the mutex, and other     *)
(* cases take the asset in the meantime.                                   *)
DryRunsAgree ==
    \A a, b \in dryAnswers :
        DryKey(a.read) = DryKey(b.read) => a = b
=============================================================================
