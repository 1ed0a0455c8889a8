---------------------------- MODULE VoteEvidence ----------------------------
(***************************************************************************)
(* Evidence of checkpoint vote equivocation, from the vote handlers of one *)
(* node, through its vote journal and the operator's export, to the record *)
(* that the slash-indicator system contract keeps on chain.                *)
(*                                                                         *)
(* An envelope is [number, hash, signer]; hashes are numbers, ordered as   *)
(* their bytes are.  The journal is the sequence of its vote_conflict      *)
(* records with the day of the file each is in; its other records are      *)
(* skipped by every reader.  Any account may submit any two votes that     *)
(* were signed.                                                            *)
(***************************************************************************)
EXTENDS VotePool, Sequences

CONSTANTS
    Signers,        \* keys of the checkpoint signer set
    Honest,         \* those of them used only through this program
    Numbers,        \* checkpoint numbers that are voted on
    Hashes,         \* hashes of competing checkpoint blocks
    Threads,        \* goroutines that handle votes
    RetentionDays,  \* journal retention
    MaxHead,        \* bound on the head number
    MaxDay,         \* bound on the days that pass
    MaxConflicts,   \* bound on the length of the journal
    None            \* nil

Envelopes == [number : Numbers, hash : Hashes, signer : Signers]
Evidences == [number : Numbers, signer : Signers, first : Hashes, second : Hashes]

ASSUME EvidenceAssumption ==
    /\ Honest \subseteq Signers
    /\ Numbers \subseteq Nat /\ Hashes \subseteq Nat
    /\ None \notin Envelopes /\ None \notin Evidences
    /\ RetentionDays \in Nat \ {0} /\ MaxHead \in Nat /\ MaxDay \in Nat
    /\ MaxConflicts \in Nat

VARIABLES
    signatures,  \* envelopes that carry a valid signature
    known,       \* <<hash, number>> whose header and pre-state snapshot are local
    head,        \* number of the current header
    finalized,   \* DPoS.runtimeFinalizedNumber
    pool,        \* the vote pool
    thread,      \* what each handler is doing
    day,         \* the date
    lastPruneDay,
    journal,     \* vote_conflict records, oldest first
    reported,    \* ghost: the equivocations that AddVote reported
    outbox,      \* evidence files the operator exported
    status,      \* signers that are registered (status not Inactive)
    records      \* MaliciousVoteEvidenceRecord list on chain

nodeVars  == <<known, head, finalized, pool, thread>>
fileVars  == <<day, lastPruneDay, journal, outbox>>
chainVars == <<status, records>>
evidenceVars == <<signatures, nodeVars, fileVars, chainVars, reported>>

IdleHandler == [pc |-> "idle", source |-> "p2p", queue |-> {}, env |-> None, prev |-> None, equivocation |-> FALSE]

(*------------------------------- the signers -----------------------------*)

(* The double-sign guard of an honest node: one hash per checkpoint number. *)
MaySign(e) ==
    e.signer \in Honest =>
        ~ \E f \in signatures : f.signer = e.signer /\ f.number = e.number /\ f.hash # e.hash

Sign(e) ==
    /\ e \notin signatures /\ MaySign(e)
    /\ signatures' = signatures \cup {e}
    /\ UNCHANGED <<nodeVars, fileVars, chainVars, reported>>

(*---------------------------- the vote journal ---------------------------*)

(* The records of the files dated before a day are the first ones.         *)
Without(j, before) ==
    SubSeq(j, 1 + Cardinality({i \in DOMAIN j : j[i].day < before}), Len(j))

(* The cutoff has the time of day, the date of a file has none: a file as  *)
(* old as the retention goes too.                                          *)
Cutoff == day - RetentionDays + 1

(* Mutant: the retention is a day short.                                   *)
PruneEarly(j) == IF lastPruneDay = day THEN j ELSE Without(j, Cutoff + 1)

(* pruneOldFiles: once a day, old files are removed.                       *)
pruneOldFiles(j) == IF lastPruneDay = day THEN j ELSE Without(j, Cutoff)

RecordConflict(previous, current) ==
    journal' = Append(pruneOldFiles(journal),
                      [day |-> day, previous |-> previous, current |-> current])

(*------------------------------- the handlers ----------------------------*)

InWindow(number) ==
    /\ EligibleCheckpoint(number)
    /\ number >= WindowFloor(head)
    /\ number <= head + 2 * CheckpointInterval

(* A vote from a peer.  Without the checkpoint's header or its pre-state   *)
(* the vote is queued as pending; otherwise it is admitted in three steps, *)
(* each under its own lock: ExistingVote, AddVote, RecordConflict.         *)
HandleIncomingVote(t, e) ==
    /\ thread[t].pc = "idle" /\ e \in signatures /\ InWindow(e.number)
    /\ Len(journal) < MaxConflicts
    /\ IF <<e.hash, e.number>> \in known
       THEN /\ thread' = [thread EXCEPT ![t] = [IdleHandler EXCEPT !.pc = "lookup", !.queue = {e}]]
            /\ UNCHANGED <<pool, fileVars>>
       ELSE /\ pool' = Prune(AddPending(pool, e), finalized, head)
            /\ journal' = pruneOldFiles(journal)      \* RecordReceived
            /\ lastPruneDay' = day
            /\ UNCHANGED <<thread, day, outbox>>
    /\ UNCHANGED <<signatures, known, head, finalized, chainVars, reported>>

(* assembleCheckpointQC drains the pending votes of its candidate and      *)
(* admits those that verify for the checkpoint hash in the same way.       *)
AssembleCheckpointQC(t, hash, number) ==
    /\ thread[t].pc = "idle" /\ <<hash, number>> \in known
    /\ PendingAt(pool, number) # {}
    /\ LET verified == {e \in PendingAt(pool, number) : e.hash = hash}
       IN  thread' = [thread EXCEPT ![t] =
                         IF verified = {} THEN IdleHandler
                         ELSE [IdleHandler EXCEPT !.pc = "lookup", !.source = "pending", !.queue = verified]]
    /\ pool' = [pool EXCEPT !.pending = @ \ PendingAt(pool, number)]
    /\ UNCHANGED <<signatures, known, head, finalized, fileVars, chainVars, reported>>

Previous(e) ==
    LET prev == ExistingVote(pool, e.number, e.signer)
    IN  IF prev = {} THEN None ELSE CHOOSE p \in prev : TRUE

Lookup(t) ==
    /\ thread[t].pc = "lookup"
    /\ \E e \in thread[t].queue :
          thread' = [thread EXCEPT ![t] =
              [thread[t] EXCEPT !.pc = "add", !.queue = thread[t].queue \ {e}, !.env = e, !.prev = Previous(e)]]
    /\ UNCHANGED <<signatures, known, head, finalized, pool, fileVars, chainVars, reported>>

Add(t) ==
    /\ thread[t].pc = "add"
    /\ LET e == thread[t].env
           equivocation == Previous(e) # None /\ Previous(e).hash # e.hash
       IN  /\ pool' = AddVote(pool, e)
           /\ thread' = [thread EXCEPT ![t].pc = "journal", ![t].equivocation = equivocation]
    /\ UNCHANGED <<signatures, known, head, finalized, fileVars, chainVars, reported>>

(* RecordReceived, RecordConflict and, for a vote from a peer, Prune.      *)
Journal(t) ==
    /\ thread[t].pc = "journal"
    /\ IF thread[t].equivocation
       THEN /\ RecordConflict(thread[t].prev, thread[t].env)
            /\ reported' = reported \cup {thread[t].env}
       ELSE /\ journal' = pruneOldFiles(journal)
            /\ UNCHANGED reported
    /\ lastPruneDay' = day
    /\ pool' = IF thread[t].source = "p2p" THEN Prune(pool, finalized, head) ELSE pool
    /\ thread' = [thread EXCEPT ![t] =
                     IF @.queue = {} THEN IdleHandler
                     ELSE [@ EXCEPT !.pc = "lookup", !.env = None, !.prev = None,
                                    !.equivocation = FALSE]]
    /\ UNCHANGED <<signatures, known, head, finalized, day, outbox, chainVars>>

(* The chain grows: a header and its state arrive, the head moves, a       *)
(* checkpoint becomes final.                                               *)
Learn(hash, number) ==
    /\ <<hash, number>> \notin known
    /\ known' = known \cup {<<hash, number>>}
    /\ UNCHANGED <<signatures, head, finalized, pool, thread, fileVars, chainVars, reported>>

NewHead ==
    /\ head < MaxHead
    /\ head' = head + 1
    /\ \E n \in {finalized} \cup {m \in Numbers : m <= head /\ m > finalized} : finalized' = n
    /\ UNCHANGED <<signatures, known, pool, thread, fileVars, chainVars, reported>>

NewDay ==
    /\ day < MaxDay
    /\ day' = day + 1
    /\ UNCHANGED <<signatures, nodeVars, lastPruneDay, journal, outbox, chainVars, reported>>

(* The node stops and starts again: the pool and the handlers are gone,    *)
(* newCheckpointVoteJournal prunes the files it finds.                     *)
Restart ==
    /\ pool' = EmptyPool
    /\ thread' = [t \in Threads |-> IdleHandler]
    /\ journal' = Without(journal, Cutoff)
    /\ lastPruneDay' = day
    /\ UNCHANGED <<signatures, known, head, finalized, day, outbox, chainVars, reported>>

(*------------------------- evidence and its export -----------------------*)

(* Mutant: the same vote twice will do.                                    *)
SameHashToo(a, b) ==
    IF a.signer # b.signer \/ a.number # b.number THEN None
    ELSE [number |-> a.number, signer |-> a.signer, first |-> a.hash, second |-> b.hash]

(* The canonical evidence of two envelopes, None when they do not conflict. *)
NewMaliciousVoteEvidence(a, b) ==
    IF a.signer # b.signer \/ a.number # b.number \/ a.hash = b.hash THEN None
    ELSE [number |-> a.number, signer |-> a.signer,
          first  |-> IF b.hash < a.hash THEN b.hash ELSE a.hash,
          second |-> IF b.hash < a.hash THEN a.hash ELSE b.hash]

EnvelopeOf(e, hash) == [number |-> e.number, hash |-> hash, signer |-> e.signer]

(* Validate: the evidence is what its own votes make, and both signatures  *)
(* are the signer's.                                                       *)
Validate(e) ==
    /\ e # None
    /\ NewMaliciousVoteEvidence(EnvelopeOf(e, e.first), EnvelopeOf(e, e.second)) = e
    /\ {EnvelopeOf(e, e.first), EnvelopeOf(e, e.second)} \subseteq signatures

Exportable(rec, number, signer) ==
    /\ rec.current.signer = signer /\ rec.current.number = number
    /\ rec.previous # None

(* The first record of the journal that has both votes, as a set.          *)
FirstRecord(number, signer) ==
    LET found == {i \in DOMAIN journal : Exportable(journal[i], number, signer)}
    IN  {journal[i] : i \in {k \in found : \A l \in found : k <= l}}

(* Mutant: the votes are exported in the order they were seen in.          *)
EvidenceAsSeen(number, signer) ==
    IF FirstRecord(number, signer) = {} THEN None
    ELSE LET rec == CHOOSE x \in FirstRecord(number, signer) : TRUE
         IN  [number |-> number, signer |-> signer,
              first |-> rec.previous.hash, second |-> rec.current.hash]

(* gtos vote export-evidence: the evidence of the first record with both    *)
(* votes, and an error, whatever the later records hold, when those votes  *)
(* do not conflict.                                                        *)
FirstEvidence(number, signer) ==
    IF FirstRecord(number, signer) = {} THEN None
    ELSE LET rec == CHOOSE x \in FirstRecord(number, signer) : TRUE
         IN  NewMaliciousVoteEvidence(rec.previous, rec.current)

ExportMaliciousVoteEvidence(number, signer) ==
    /\ FirstEvidence(number, signer) # None
    /\ outbox' = outbox \cup {FirstEvidence(number, signer)}
    /\ UNCHANGED <<signatures, nodeVars, day, lastPruneDay, journal, chainVars, reported>>

(*--------------------------- the system contract -------------------------*)

HasSubmittedMaliciousVoteEvidence(e) ==
    \E i \in DOMAIN records : records[i].evidence = e

(* Mutant: only the same evidence is a duplicate.                          *)
NoOffenseIndex(signer, number) == FALSE

HasRecordedMaliciousVoteOffense(signer, number) ==
    \E i \in DOMAIN records : records[i].offense = <<signer, number>>

(* slashindicator.Execute on the votes of a transaction's calldata, which  *)
(* the decoder canonicalises.                                              *)
Execute(a, b) ==
    LET e == NewMaliciousVoteEvidence(a, b)
    IN  /\ e # None /\ Validate(e)
        /\ ~ HasSubmittedMaliciousVoteEvidence(e)
        /\ ~ HasRecordedMaliciousVoteOffense(e.signer, e.number)
        /\ e.signer \in status
        /\ records' = Append(records, [evidence |-> e, offense |-> <<e.signer, e.number>>])
        /\ UNCHANGED <<signatures, nodeVars, fileVars, status, reported>>

(* The registry's side: a signer withdraws, or registers again.            *)
Register(v) ==
    /\ v \notin status
    /\ status' = status \cup {v}
    /\ UNCHANGED <<signatures, nodeVars, fileVars, records, reported>>

Withdraw(v) ==
    /\ v \in status
    /\ status' = status \ {v}
    /\ UNCHANGED <<signatures, nodeVars, fileVars, records, reported>>

EvidenceInit ==
    /\ signatures = {} /\ known = {} /\ head = 0 /\ finalized = 0
    /\ pool = EmptyPool /\ thread = [t \in Threads |-> IdleHandler]
    /\ day = 0 /\ lastPruneDay = 0 /\ journal = <<>> /\ reported = {} /\ outbox = {}
    /\ status = Signers /\ records = <<>>

EvidenceNext ==
    \/ NewHead \/ NewDay \/ Restart
    \/ \E e \in Envelopes : Sign(e)
    \/ \E hash \in Hashes, n \in Numbers : Learn(hash, n)
    \/ \E t \in Threads, e \in Envelopes : HandleIncomingVote(t, e)
    \/ \E t \in Threads, hash \in Hashes, n \in Numbers : AssembleCheckpointQC(t, hash, n)
    \/ \E t \in Threads : Lookup(t) \/ Add(t) \/ Journal(t)
    \/ \E n \in Numbers, v \in Signers : ExportMaliciousVoteEvidence(n, v)
    \/ \E a, b \in signatures : Execute(a, b)
    \/ \E v \in Signers : Register(v) \/ Withdraw(v)

EvidenceSpec == EvidenceInit /\ [][EvidenceNext]_evidenceVars

-----------------------------------------------------------------------------

(* No validator that signs through this program is ever accused: whoever   *)
(* has a record on chain signed two hashes for that checkpoint, whatever   *)
(* votes the submitters put together and in whatever order they arrived.   *)
OnlyEquivocatorsAccused ==
    \A i \in DOMAIN records :
        /\ records[i].evidence.signer \notin Honest
        /\ \E a, b \in signatures : /\ a.signer = records[i].evidence.signer /\ b.signer = a.signer
                                /\ a.number = b.number /\ a.hash # b.hash

(* One offence, one record: however many pairs of conflicting votes a      *)
(* signer leaves behind at a checkpoint number, and also when it withdraws *)
(* and registers again between two submissions.                            *)
OneRecordPerOffense ==
    \A i, j \in DOMAIN records :
        /\ records[i].evidence.signer = records[j].evidence.signer
        /\ records[i].evidence.number = records[j].evidence.number
        => i = j

(* Whatever an operator exports from the journal is evidence that staging  *)
(* and the system contract accept as it is, in whichever order the two     *)
(* votes reached the node.                                                 *)
ExportsAreValid == \A e \in outbox : Validate(e)

(* An equivocation that the pool reported can be exported while the        *)
(* journal's retention lasts.                                              *)
ReportedIsExportable ==
    day < RetentionDays =>
        \A e \in reported : FirstEvidence(e.number, e.signer) # None

(* Only who signed two hashes for a checkpoint is accused, each offence is *)
(* recorded once on chain, what the journal exports is valid evidence, and *)
(* what was reported within the retention can be exported.                 *)
EvidenceSound ==
    /\ OnlyEquivocatorsAccused /\ OneRecordPerOffense
    /\ ExportsAreValid /\ ReportedIsExportable
=============================================================================
