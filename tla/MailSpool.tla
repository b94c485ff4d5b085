------------------------------ MODULE MailSpool ------------------------------
(***************************************************************************)
(* The mail spool and the reader that follows it by offset.                *)
(*                                                                         *)
(* A message is its From line, the headers with the subject, and the lines *)
(* of the body, one piece each.  A read that ends inside the From line or  *)
(* before the subject loses the message like one that ends after the From  *)
(* line, and one that ends later reports what it got, so these cuts are    *)
(* enough.                                                                 *)
(* Every path of mail_spool_paths that names the file has its own offset.  *)
(***************************************************************************)
EXTENDS CronScan

CONSTANTS Mails,
          CronMails,   \* those with a subject "Cron <user@host> command"
          Size,        \* number of pieces of each message, at least 3
          Paths,       \* names of the file
          Related      \* pairs of a job and a mail whose commands are alike

ASSUME MailAssumption ==
    /\ CronMails \subseteq Mails
    /\ Size \in [Mails -> Nat]
    /\ \A m \in Mails : Size[m] >= 3

VARIABLES spool,       \* pieces in the file; an empty one may be missing
          wrote,       \* pieces of each message written so far
          offset,      \* the "mailspool_offset:" entries of the store
          reading,     \* paths the scan still has to read
          pending,     \* messages read, with their path, to be buffered
          reported,    \* events buffered for a message of a path
          orphans,     \* messages reported without a command_hash
          rereads,     \* history: reads of a path that were not from its offset,
                       \* or whose new offset could not be saved
          stale,       \* history: paths whose offset is older than the file
          excused      \* history: messages a path need not report

mailVars == <<spool, wrote, offset, reading, pending, reported, orphans,
              rereads, stale, excused>>

MailInit ==
    /\ spool = <<>>
    /\ wrote = [m \in Mails |-> 0]
    /\ offset = [p \in Paths |-> 0]
    /\ reading = {}
    /\ pending = {}
    /\ reported = [k \in Paths \X Mails |-> 0]
    /\ orphans = {}
    /\ rereads = [p \in Paths |-> 0]
    /\ stale = {}
    /\ excused = {}

Unfinished == {m \in Mails : wrote[m] \in 1 .. Size[m] - 1}

\* The mail system appends n pieces; it finishes a message before the next.
Deliver(m, n) ==
    /\ wrote[m] + n <= Size[m]
    /\ Unfinished \subseteq {m}
    /\ spool' = spool \o [i \in 1 .. n |-> <<m, wrote[m] + i>>]
    /\ wrote' = [wrote EXCEPT ![m] = @ + n]
    /\ UNCHANGED <<offset, reading, pending, reported, orphans, rereads, stale,
                   excused>>

\* The user deletes neighbouring messages, a to b, and keeps the other ones.
Delete(a, b) ==
    /\ Unfinished = {}
    /\ \A i \in DOMAIN spool, j \in a .. b :
          spool[i][1] = spool[j][1] => i \in a .. b
    /\ spool' = SubSeq(spool, 1, a - 1) \o SubSeq(spool, b + 1, Len(spool))
    /\ stale' = Paths
    /\ UNCHANGED <<wrote, offset, reading, pending, reported, orphans, rereads,
                   excused>>

-----------------------------------------------------------------------------
Pieces(from, to) == {spool[i] : i \in from + 1 .. to}

\* A message needs its From line and a cron subject in the part that is read;
\* what comes before the first From line is dropped.
parseMbox(data) == {m \in CronMails : {<<m, 1>>, <<m, 2>>} \subseteq data}

\* Mutant: a shorter file is read from the offset of the longer one.
FromOffsetKept(p, known) ==
    IF offset[p] <= Len(spool) THEN offset[p] ELSE Len(spool)

\* An offset that cannot be looked up is taken for 0, and a file that is shorter
\* than the offset is read from its start.
FromOffset(p, known) ==
    IF known /\ offset[p] <= Len(spool) THEN offset[p] ELSE 0

\* Messages of a file that was rewritten and has grown to the old offset unnoticed.
Skipped(p, known) ==
    {m \in Mails :
        /\ p \in stale /\ known /\ offset[p] <= Len(spool)
        /\ \E i \in 1 .. Size[m] : <<m, i>> \in Pieces(0, offset[p])}

\* Mutant: a path is read while it has no offset.
StartScanOnce ==
    /\ reading' = {p \in Paths : offset[p] = 0}
    /\ UNCHANGED <<spool, wrote, offset, pending, reported, orphans, rereads,
                   stale, excused>>

StartScan ==
    /\ reading' = Paths
    /\ UNCHANGED <<spool, wrote, offset, pending, reported, orphans, rereads,
                   stale, excused>>

\* The new offset is saved when it differs from the one looked up.
Changes(p, known) == Len(spool) # (IF known THEN offset[p] ELSE 0)

\* The new offset is saved before the messages are processed; that it could
\* not be looked up or saved is ignored.
ReadNew(p, known, saved) ==
    LET moves == saved /\ (known \/ Changes(p, known)) IN
    /\ p \in reading
    /\ pending = {}
    /\ reading' = reading \ {p}
    /\ pending' = {p} \X parseMbox(Pieces(FromOffset(p, known), Len(spool)))
    /\ offset' = [offset EXCEPT ![p] = IF moves THEN Len(spool) ELSE @]
    /\ stale' = IF moves THEN stale \ {p} ELSE stale
    /\ rereads' = IF moves /\ FromOffset(p, known) = offset[p] THEN rereads
                  ELSE [rereads EXCEPT ![p] = @ + 1]
    /\ excused' = excused \cup
          ({p} \X (Skipped(p, known) \cup (IF moves THEN Unfinished ELSE {})))
    /\ UNCHANGED <<spool, wrote, reported, orphans>>

\* The file cannot be opened or read.
CannotRead(p) ==
    /\ p \in reading
    /\ pending = {}
    /\ reading' = reading \ {p}
    /\ UNCHANGED <<spool, wrote, offset, pending, reported, orphans, rereads,
                   stale, excused>>

\* The event carries the hash of a known job with a command like the one of
\* the mail, whichever the map yields first, if there is one.
processMailMessage(k, stored) ==
    /\ k \in pending
    /\ pending' = pending \ {k}
    /\ reported' = IF stored THEN [reported EXCEPT ![k] = @ + 1] ELSE reported
    /\ orphans' = IF stored /\ ~(\E h \in Known : <<h, k[2]>> \in Related)
                  THEN orphans \cup {k[2]} ELSE orphans
    /\ excused' = IF stored THEN excused ELSE excused \cup {k}
    /\ UNCHANGED <<spool, wrote, offset, reading, rereads, stale>>

\* What was read and is not buffered yet is gone with the agent.
ForgetMail ==
    /\ reading' = {}
    /\ pending' = {}
    /\ excused' = excused \cup pending
    /\ UNCHANGED <<spool, wrote, offset, reported, orphans, rereads, stale>>
=============================================================================
