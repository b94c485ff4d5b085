----------------------------- MODULE Enrollment -----------------------------
(***************************************************************************)
(* Enrollment of agents.                                                   *)
(*                                                                         *)
(* The operator makes enrollment tokens and runs "init" on a machine.      *)
(* init sends the token to the server, which checks and consumes it,       *)
(* registers the host, and replaces the credential of the host by a new    *)
(* one, each in a statement of its own.  init then writes the credential   *)
(* file, the config file and, if no agent holds the lock of the state      *)
(* file, the host id.  An agent starts when all three are there.  Nothing  *)
(* keeps a second init from running on a machine at the same time.         *)
(*                                                                         *)
(* An attempt is one run of init.  It also stands for the credential that  *)
(* the server makes for it, and for the fresh machine id of a machine      *)
(* without /etc/machine-id.                                                *)
(***************************************************************************)
EXTENDS Integers

CONSTANTS Machines,
          Stable,      \* the machines with an /etc/machine-id
          Attempts,
          DbTokens,    \* tokens an operator can make
          Static,      \* the static token of the configuration
          Unknown,     \* any token that is neither made by an operator nor static
          None, Torn,  \* nothing; a file truncated and not written
          FaultKinds,  \* failures the run allows
          MaxFaults    \* bound on the number of failures of the run

Tokens == DbTokens \cup {Static, Unknown}
HostIds == Stable \cup Attempts

ASSUME EnrollmentAssumption ==
    /\ Stable \subseteq Machines
    /\ Machines \cap Attempts = {}
    /\ {Static, Unknown} \cap DbTokens = {}
    /\ Static # Unknown
    /\ {None, Torn} \cap (Machines \cup Attempts \cup Tokens) = {}
    /\ None # Torn
    /\ MaxFaults \in Nat

VARIABLES made, used, expired,  \* table enrollment_tokens
          hosts,                \* table hosts: ids, by machine id
          credentials,          \* table agent_credentials: host id -> credential
          at,                   \* where the handler of each attempt is
          by, token,            \* machine and token of each attempt
          phase,                \* where the init of each attempt is
          ended,                \* exit of the last init of a machine
          credFile, cfgFile,    \* credential and config file
          hostMeta,             \* host_id in the state file
          running,              \* the agent runs and holds the state file
          late,                 \* history: sent with a token that was not valid
          orphans,              \* history: attempts whose credential went nowhere
          mixed,                \* history: inits that ran while another one ran
          faults                \* number of failures so far

tokenTable == <<made, used, expired>>
request    == <<by, token, late, mixed>>
disk       == <<credFile, cfgFile, hostMeta>>
vars == <<tokenTable, hosts, credentials, at, request, phase, ended, disk, running,
          orphans, faults>>

Fault(kind) == /\ kind \in FaultKinds
               /\ faults < MaxFaults
               /\ faults' = faults + 1

\* hosts.Upsert finds a host by its machine id.
HostOf(a) == IF by[a] \in Stable THEN by[a] ELSE a

Init ==
    /\ made = {}
    /\ used = {}
    /\ expired = {}
    /\ hosts = {}
    /\ credentials = [h \in HostIds |-> None]
    /\ at = [a \in Attempts |-> "unused"]
    /\ by = [a \in Attempts |-> None]
    /\ token = [a \in Attempts |-> None]
    /\ phase = [a \in Attempts |-> "none"]
    /\ ended = [m \in Machines |-> "none"]
    /\ credFile = [m \in Machines |-> None]
    /\ cfgFile = [m \in Machines |-> "none"]
    /\ hostMeta = [m \in Machines |-> None]
    /\ running = [m \in Machines |-> FALSE]
    /\ late = {}
    /\ orphans = {}
    /\ mixed = {}
    /\ faults = 0

-----------------------------------------------------------------------------
(* Tokens.                                                                 *)

GenerateEnrollmentToken(t) ==
    /\ t \notin made
    /\ made' = made \cup {t}
    /\ UNCHANGED <<used, expired, hosts, credentials, at, request, phase, ended, disk,
                   running, orphans, faults>>

\* 24 hours have passed.
Expire(t) ==
    /\ t \in made \ expired
    /\ expired' = expired \cup {t}
    /\ UNCHANGED <<made, used, hosts, credentials, at, request, phase, ended, disk,
                   running, orphans, faults>>

-----------------------------------------------------------------------------
(* Server: the handler of an attempt.                                      *)

server == <<made, expired, request, phase, ended, disk, running, orphans>>

\* Mutant: no way round the table for the static token.
Found_Always(a) ==
    /\ at[a] = "lookup"
    /\ at' = [at EXCEPT ![a] = "check"]
    /\ UNCHANGED <<server, used, hosts, credentials, faults>>

\* consumeEnrollmentToken: a token of the table is consumed, the static one needs
\* no more, and any other one is refused.
Found(a) ==
    /\ at[a] = "lookup"
    /\ \/ token[a] \in made /\ at' = [at EXCEPT ![a] = "check"]
       \/ token[a] = Static /\ at' = [at EXCEPT ![a] = "register"]
       \/ token[a] \notin made \cup {Static} /\ at' = [at EXCEPT ![a] = "refused"]
    /\ UNCHANGED <<server, used, hosts, credentials, faults>>

\* Mutant: the token is marked as used before it is checked for expiry.
SelectToken_Marks(a) ==
    /\ at[a] = "check"
    /\ at' = [at EXCEPT ![a] = IF token[a] \in used \cup expired THEN "refused" ELSE "mark"]
    /\ used' = used \cup {token[a]}
    /\ UNCHANGED <<server, hosts, credentials, faults>>

\* Mutant: only the expiry is checked.
SelectToken_Reuse(a) ==
    /\ at[a] = "check"
    /\ at' = [at EXCEPT ![a] = IF token[a] \in expired THEN "refused" ELSE "mark"]
    /\ UNCHANGED <<server, used, hosts, credentials, faults>>

\* Consume, first statement.
SelectToken(a) ==
    /\ at[a] = "check"
    /\ at' = [at EXCEPT ![a] = IF token[a] \in used \cup expired THEN "refused" ELSE "mark"]
    /\ UNCHANGED <<server, used, hosts, credentials, faults>>

\* Consume, second statement.
MarkUsed(a) ==
    /\ at[a] = "mark"
    /\ used' = used \cup {token[a]}
    /\ at' = [at EXCEPT ![a] = "register"]
    /\ UNCHANGED <<server, hosts, credentials, faults>>

Register(a) ==
    /\ at[a] = "register"
    /\ hosts' = hosts \cup {HostOf(a)}
    /\ at' = [at EXCEPT ![a] = "issue"]
    /\ UNCHANGED <<server, used, credentials, faults>>

\* Mutant: ON CONFLICT DO NOTHING.
Issue_KeepsOld(a) ==
    /\ at[a] = "issue"
    /\ credentials' = [credentials EXCEPT ![HostOf(a)] = IF @ = None THEN a ELSE @]
    /\ at' = [at EXCEPT ![a] = "answer"]
    /\ UNCHANGED <<server, used, hosts, faults>>

Issue(a) ==
    /\ at[a] = "issue"
    /\ credentials' = [credentials EXCEPT ![HostOf(a)] = a]
    /\ at' = [at EXCEPT ![a] = "answer"]
    /\ UNCHANGED <<server, used, hosts, faults>>

Handling == {"lookup", "check", "mark", "register", "issue"}

\* A statement fails and the request is answered 401.
StatementFails(a) ==
    /\ at[a] \in Handling
    /\ Fault("database")
    /\ at' = [at EXCEPT ![a] = "refused"]
    /\ UNCHANGED <<server, used, hosts, credentials>>

\* The context of a request whose client is gone is cancelled.
Abandon(a) ==
    /\ a \in orphans
    /\ at[a] \in Handling
    /\ at' = [at EXCEPT ![a] = "gone"]
    /\ UNCHANGED <<server, used, hosts, credentials, faults>>

-----------------------------------------------------------------------------
(* Agent: interactiveInit and run.                                         *)

tables == <<tokenTable, hosts, credentials>>

\* The inits that run on a machine; one that meets another is mixed with it.
Inits(m) == {a \in Attempts : by[a] = m /\ phase[a] # "none"}

\* The operator enters a token, and init sends it to the server.
Enroll(m, a, t) ==
    /\ at[a] = "unused"
    /\ t \in made \cup {Static, Unknown}
    /\ at' = [at EXCEPT ![a] = "lookup"]
    /\ by' = [by EXCEPT ![a] = m]
    /\ token' = [token EXCEPT ![a] = t]
    /\ late' = IF t \in used \cup expired \cup {Unknown} THEN late \cup {a} ELSE late
    /\ mixed' = IF Inits(m) # {} THEN mixed \cup Inits(m) \cup {a} ELSE mixed
    /\ phase' = [phase EXCEPT ![a] = "waiting"]
    /\ ended' = [ended EXCEPT ![m] = "none"]
    /\ UNCHANGED <<tables, disk, running, orphans, faults>>

EndInit(a, exit) ==
    /\ phase' = [phase EXCEPT ![a] = "none"]
    /\ ended' = [ended EXCEPT ![by[a]] = exit]

Proceed(a, p) == phase' = [phase EXCEPT ![a] = p] /\ UNCHANGED ended

ReceiveCredential(a) ==
    /\ phase[a] = "waiting"
    /\ at[a] = "answer"
    /\ at' = [at EXCEPT ![a] = "done"]
    /\ Proceed(a, "credential")
    /\ UNCHANGED <<tables, request, disk, running, orphans, faults>>

ReceiveRefusal(a) ==
    /\ phase[a] = "waiting"
    /\ at[a] = "refused"
    /\ EndInit(a, "failed")
    /\ UNCHANGED <<tables, at, request, disk, running, orphans, faults>>

\* No answer in 30 seconds, or none that arrives; the handler may go on.
Timeout(a) ==
    /\ phase[a] = "waiting"
    /\ Fault("timeout")
    /\ orphans' = orphans \cup {a}
    /\ EndInit(a, "failed")
    /\ UNCHANGED <<tables, at, request, disk, running>>

\* A file that could not be opened or whose writing was cut off.
NotWritten(file, m, torn) ==
    file' \in {file, [file EXCEPT ![m] = torn]}

WriteCredentialFile(a) ==
    /\ phase[a] = "credential"
    /\ \/ /\ credFile' = [credFile EXCEPT ![by[a]] = a]
          /\ Proceed(a, "config")
          /\ UNCHANGED <<orphans, faults>>
       \/ /\ Fault("file")
          /\ NotWritten(credFile, by[a], Torn)
          /\ orphans' = orphans \cup {a}
          /\ EndInit(a, "failed")
    /\ UNCHANGED <<tables, at, request, cfgFile, hostMeta, running>>

WriteConfigFile(a) ==
    /\ phase[a] = "config"
    /\ \/ /\ cfgFile' = [cfgFile EXCEPT ![by[a]] = "ok"]
          /\ Proceed(a, "state")
          /\ UNCHANGED faults
       \/ Fault("file") /\ NotWritten(cfgFile, by[a], "torn") /\ EndInit(a, "failed")
    /\ UNCHANGED <<tables, at, request, credFile, hostMeta, running, orphans>>

\* state.Open gives up after two seconds if the agent holds the file.
SetHostID(a) ==
    /\ phase[a] = "state"
    /\ \/ /\ ~running[by[a]]
          /\ hostMeta' = [hostMeta EXCEPT ![by[a]] = HostOf(a)]
          /\ EndInit(a, "ok")
          /\ UNCHANGED faults
       \/ running[by[a]] /\ EndInit(a, "failed") /\ UNCHANGED <<hostMeta, faults>>
       \/ Fault("file") /\ EndInit(a, "failed") /\ UNCHANGED hostMeta
    /\ UNCHANGED <<tables, at, request, credFile, cfgFile, running, orphans>>

\* init is killed.
KillInit(a) ==
    /\ phase[a] # "none"
    /\ Fault("crash")
    /\ orphans' = IF phase[a] \in {"waiting", "credential"} THEN orphans \cup {a} ELSE orphans
    /\ IF phase[a] = "credential" THEN NotWritten(credFile, by[a], Torn)
                                  ELSE UNCHANGED credFile
    /\ IF phase[a] = "config" THEN NotWritten(cfgFile, by[a], "torn") ELSE UNCHANGED cfgFile
    /\ EndInit(a, "failed")
    /\ UNCHANGED <<tables, at, request, hostMeta, running>>

\* config.Load and app.Run find all they need.
Complete(m) == cfgFile[m] = "ok" /\ credFile[m] \in Attempts /\ hostMeta[m] # None

Run(m) ==
    /\ ~running[m]
    /\ Complete(m)
    /\ running' = [running EXCEPT ![m] = TRUE]
    /\ UNCHANGED <<tables, at, request, phase, ended, disk, orphans, faults>>

Stop(m) ==
    /\ running[m]
    /\ running' = [running EXCEPT ![m] = FALSE]
    /\ UNCHANGED <<tables, at, request, phase, ended, disk, orphans, faults>>

-----------------------------------------------------------------------------
Serve(a) == \/ Found(a) \/ SelectToken(a) \/ MarkUsed(a) \/ Register(a) \/ Issue(a)
            \/ StatementFails(a) \/ Abandon(a)

Install(a) == \/ ReceiveCredential(a) \/ ReceiveRefusal(a) \/ Timeout(a)
              \/ WriteCredentialFile(a) \/ WriteConfigFile(a) \/ SetHostID(a)
              \/ KillInit(a)

Next ==
    \/ \E t \in DbTokens : GenerateEnrollmentToken(t) \/ Expire(t)
    \/ \E a \in Attempts : Serve(a) \/ Install(a)
    \/ \E m \in Machines, a \in Attempts, t \in Tokens : Enroll(m, a, t)
    \/ \E m \in Machines : Run(m) \/ Stop(m)

Spec == Init /\ [][Next]_vars

-----------------------------------------------------------------------------
(* Properties.                                                             *)

TypeOK ==
    /\ made \subseteq DbTokens
    /\ used \subseteq made
    /\ expired \subseteq made
    /\ hosts \subseteq HostIds
    /\ credentials \in [HostIds -> Attempts \cup {None}]
    /\ at \in [Attempts -> Handling \cup {"unused", "refused", "gone", "answer", "done"}]
    /\ by \in [Attempts -> Machines \cup {None}]
    /\ token \in [Attempts -> Tokens \cup {None}]
    /\ phase \in [Attempts -> {"none", "waiting", "credential", "config", "state"}]
    /\ ended \in [Machines -> {"none", "ok", "failed"}]
    /\ credFile \in [Machines -> Attempts \cup {None, Torn}]
    /\ cfgFile \in [Machines -> {"none", "ok", "torn"}]
    /\ hostMeta \in [Machines -> HostIds \cup {None}]
    /\ running \in [Machines -> BOOLEAN]
    /\ late \subseteq Attempts
    /\ orphans \subseteq Attempts
    /\ mixed \subseteq Attempts
    /\ faults \in 0..MaxFaults

Issued(a) == at[a] \in {"answer", "done"}

\* A host is admitted, and its credential stands, only on a token that was
\* valid when the request was sent and that has been marked as used since,
\* although checking and marking a token are statements of their own.
AdmissionSound ==
    /\ \A a \in Attempts :
         at[a] \in {"register", "issue"} \/ Issued(a) =>
           token[a] = Static \/ (token[a] \in used /\ a \notin late)
    /\ \A h \in HostIds :
         credentials[h] # None => /\ h \in hosts
                                  /\ h = HostOf(credentials[h])
                                  /\ Issued(credentials[h])

\* credentials.Validate, as the middleware asks for it.
Validate(h, c) == credentials[h] = c

\* When no init runs, what lies on the disk of a machine is accepted by the
\* server: the credential file holds the credential of the host in the state
\* file.  Exceptions: the credential that the server has is of an init that was
\* interrupted, or that ran while another init ran on the machine, and, on a
\* machine whose id is new in every init, the last init failed.
InstalledAccepted ==
    \A m \in Machines :
      /\ Inits(m) = {}
      /\ Complete(m)
      /\ m \in Stable \/ ended[m] = "ok"
      => \/ Validate(hostMeta[m], credFile[m])
         \/ credentials[hostMeta[m]] \in orphans \cup mixed

\* Without failures a token is never spent for nothing: a used token admitted a
\* request.
TokenNotBurned ==
    faults = 0 =>
      \A t \in used : \E a \in Attempts :
        token[a] = t /\ (at[a] \in {"register", "issue"} \/ Issued(a))

\* models.go: "EnrollmentToken is a single-use token that authorises a new agent
\* to enroll."  So no two attempts get a credential for the same token.
SingleUse ==
    \A a, b \in Attempts :
      Issued(a) /\ Issued(b) /\ token[a] = token[b] /\ token[a] # Static => a = b

-----------------------------------------------------------------------------
(* The inductive invariant behind the properties.                          *)

\* A request has a machine and a token, and its client waits unless it is gone.
RequestsConsistent ==
    \A a \in Attempts :
      /\ at[a] = "unused" => a \notin late \cup orphans \cup mixed
      /\ at[a] # "unused" =>
           by[a] \in Machines /\ token[a] \in made \cup {Static, Unknown}
      /\ at[a] \in {"check", "mark"} => token[a] \in made
      /\ at[a] = "mark" => a \notin late
      /\ a \in late => token[a] \in used \cup expired \cup {Unknown}
      /\ at[a] \in Handling \cup {"answer"} => phase[a] # "none" \/ a \in orphans

\* What an init is at agrees with the handler of its request and with the disk,
\* and inits of one machine that run at once are mixed.
InitConsistent ==
    /\ \A a \in Attempts :
         /\ phase[a] # "none" => at[a] # "unused" /\ a \notin orphans
         /\ phase[a] = "waiting" => at[a] \in Handling \cup {"refused", "answer"}
         /\ phase[a] \in {"credential", "config", "state"} => at[a] = "done"
         /\ phase[a] \in {"config", "state"} => credFile[by[a]] = a \/ a \in mixed
    /\ \A m \in Machines : \A a, b \in Inits(m) : a = b \/ a \in mixed

\* Where credentials can be: issued ones replace each other, and the one that
\* counts is on its way, in the file or lost.
Holders(m) == {a \in Inits(m) : Issued(a)}
CredentialsConsistent ==
    /\ \A a \in Attempts : at[a] = "issue" => HostOf(a) \in hosts
    /\ \A a \in Attempts : Issued(a) => credentials[HostOf(a)] # None
    /\ \A m \in Machines :
         credFile[m] \in Attempts => by[credFile[m]] = m /\ at[credFile[m]] = "done"
    /\ \A m \in Stable :
         /\ credentials[m] \in {None, credFile[m]} \cup Holders(m) \cup orphans \cup mixed
         /\ \A a \in Holders(m) : credentials[m] \in {a} \cup orphans \cup mixed

\* The host id in the state file is that of the machine or of the last init that
\* succeeded, which the credential file belongs to.
HostIdConsistent ==
    /\ \A m \in Stable : hostMeta[m] \in {None, m}
    /\ \A m \in Machines \ Stable :
         ended[m] = "ok" =>
           \/ /\ hostMeta[m] \in mixed
              /\ Issued(hostMeta[m])
              /\ HostOf(hostMeta[m]) = hostMeta[m]
           \/ Inits(m) = {} /\ hostMeta[m] = credFile[m] /\ hostMeta[m] \in Attempts

NothingLostYet == faults = 0 => orphans = {}

EnrollInv ==
    /\ TypeOK
    /\ RequestsConsistent
    /\ InitConsistent
    /\ AdmissionSound
    /\ CredentialsConsistent
    /\ HostIdConsistent
    /\ NothingLostYet
    /\ TokenNotBurned
=============================================================================
