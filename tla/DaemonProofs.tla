----------------------------- MODULE DaemonProofs -----------------------------
(***************************************************************************)
(* The invariants of Daemon for any number of commands and processes.      *)
(***************************************************************************)
EXTENDS Daemon, TLAPS

\* Commands run one at a time until they are seen to overlap.
OneCommand ==
    ~disturbed => \A c, d \in Commands : pc[c] # "idle" /\ pc[d] # "idle" => c = d

\* Beyond its first step a command has a PID.
HasTarget ==
    \A c \in Commands : pc[c] \in {"write", "kill", "remove"} => target[c] \in Pids

\* While a start is about to make its child, and when stop has sent its signal,
\* no agent is left that was not told to stop, but those lost on the way.
NoneLeft ==
    \A c \in Commands : pc[c] \in {"spawn", "remove"} => Kept = {}

\* A start that has made its child made the only one, and a stop that has read
\* the PID has read that of the only one.
OnlyChild ==
    \A c \in Commands : pc[c] \in {"write", "kill"} => Kept \subseteq {target[c]}

\* The file still has the PID that stop has read when it sends the signal.
StillNamed ==
    ~disturbed => \A c \in Commands : pc[c] = "kill" => pidFile = target[c]

\* A stranger with the PID in the file is a reused PID.
StaleSeen == \A p \in Pids : pidFile = p /\ proc[p] = "other" => stale

Inv == /\ TypeOK /\ OneCommand /\ HasTarget /\ NoneLeft /\ OnlyChild
       /\ StillNamed /\ StaleSeen /\ Controllable /\ StopHitsAgent

USE DaemonAssumption

LEMMA InitInv == Init => Inv
  <1> SUFFICES ASSUME Init PROVE Inv
    OBVIOUS
  <1> USE DEF Init
  <1>1. TypeOK
    <2>1. detached \subseteq Agents /\ signalled \subseteq Agents /\ mixed \subseteq detached
      OBVIOUS
    <2>2. /\ commands \in 0 .. MaxCommands /\ others \in 0 .. MaxOthers
      OBVIOUS
    <2>3. {disturbed, stale, hit} \subseteq BOOLEAN
      OBVIOUS
    <2> QED
      BY <2>1, <2>2, <2>3 DEF TypeOK, Phases, Places
  <1>2. OneCommand /\ HasTarget /\ NoneLeft /\ OnlyChild /\ StillNamed
    BY DEF OneCommand, HasTarget, NoneLeft, OnlyChild, StillNamed, Kept
  <1>3. StaleSeen
    BY DEF StaleSeen
  <1>4. Controllable /\ StopHitsAgent
    BY DEF Controllable, StopHitsAgent, Kept
  <1> QED
    BY <1>1, <1>2, <1>3, <1>4 DEF Inv

\* A command that begins while ~disturbed still holds afterwards is alone.
LEMMA BeginAlone ==
    ASSUME Inv, NEW c \in Commands, Begin(c), ~disturbed'
    PROVE  ~disturbed /\ \A d \in Commands : pc[d] = "idle"
  BY DEF Begin

LEMMA StartRefusedInv ==
    ASSUME Inv, NEW c \in Commands, StartRefused(c)
    PROVE  Inv'
  <1> USE DEF StartRefused, Goto, Begin, file, cli, Inv
  <1>1. TypeOK'
    <2>1. proc' \in [Pids -> Phases]
      BY DEF TypeOK, Phases, Places, Agents, HasTarget
    <2>2. detached' \subseteq Agents'
      BY DEF TypeOK, Phases, Places, Agents, HasTarget
    <2>3. signalled' \subseteq Agents' /\ mixed' \subseteq detached'
      BY DEF TypeOK, Phases, Places, Agents, HasTarget, Meet
    <2>4. lock' \in Pids \cup {None}
      BY DEF TypeOK, Phases, Places, Agents, HasTarget
    <2>5. pidFile' \in Pids \cup {None}
      BY DEF TypeOK, Phases, Places, Agents, HasTarget
    <2>6. pc' \in [Commands -> Places]
      BY DEF TypeOK, Phases, Places, Agents, HasTarget
    <2>7. target' \in [Commands -> Pids \cup {None}]
      BY DEF TypeOK, Phases, Places, Agents, HasTarget
    <2>8. commands' \in 0 .. MaxCommands
      BY DEF TypeOK, Phases, Places, Agents, HasTarget
    <2>9. others' \in 0 .. MaxOthers
      BY DEF TypeOK, Phases, Places, Agents, HasTarget
    <2>10. {disturbed', stale', hit'} \subseteq BOOLEAN
      BY DEF TypeOK, Phases, Places, Agents, HasTarget
    <2> QED
      BY <2>1, <2>2, <2>3, <2>4, <2>5, <2>6, <2>7, <2>8, <2>9, <2>10 DEF TypeOK
  <1>2. OneCommand'
    BY BeginAlone DEF TypeOK, Agents, Kept, Unnamed, Meet, daemonRunning, OneCommand, HasTarget,
       NoneLeft, OnlyChild, StillNamed, StaleSeen, Controllable
  <1>3. HasTarget'
    BY BeginAlone DEF TypeOK, Agents, Kept, Unnamed, Meet, daemonRunning, HasTarget, OneCommand,
       NoneLeft, OnlyChild, StillNamed, StaleSeen, Controllable
  <1>4. NoneLeft'
    BY BeginAlone DEF TypeOK, Agents, Kept, Unnamed, Meet, daemonRunning, NoneLeft, OneCommand,
       HasTarget, OnlyChild, StillNamed, StaleSeen, Controllable
  <1>5. OnlyChild'
    BY BeginAlone DEF TypeOK, Agents, Kept, Unnamed, Meet, daemonRunning, OnlyChild, OneCommand,
       HasTarget, NoneLeft, StillNamed, StaleSeen, Controllable
  <1>6. StillNamed'
    BY BeginAlone DEF TypeOK, Agents, Kept, Unnamed, Meet, daemonRunning, StillNamed, OneCommand,
       HasTarget, NoneLeft, OnlyChild, StaleSeen, Controllable
  <1>7. StaleSeen'
    BY BeginAlone DEF TypeOK, Agents, Kept, Unnamed, Meet, daemonRunning, StaleSeen, OneCommand,
       HasTarget, NoneLeft, OnlyChild, StillNamed, Controllable
  <1>8. Controllable'
    BY BeginAlone DEF TypeOK, Agents, Kept, Unnamed, Meet, daemonRunning, Controllable, OneCommand,
       HasTarget, NoneLeft, OnlyChild, StillNamed, StaleSeen
  <1>9. StopHitsAgent'
    BY BeginAlone DEF TypeOK, Agents, Kept, Unnamed, Meet, daemonRunning, StopHitsAgent, OneCommand,
       HasTarget, NoneLeft, OnlyChild, StillNamed, StaleSeen, Controllable
  <1> QED
    BY <1>1, <1>2, <1>3, <1>4, <1>5, <1>6, <1>7, <1>8, <1>9

LEMMA StartCheckedInv ==
    ASSUME Inv, NEW c \in Commands, StartChecked(c)
    PROVE  Inv'
  <1> USE DEF StartChecked, Goto, Begin, file, cli, Inv
  <1>1. TypeOK'
    <2>1. proc' \in [Pids -> Phases]
      BY DEF TypeOK, Phases, Places, Agents, HasTarget
    <2>2. detached' \subseteq Agents'
      BY DEF TypeOK, Phases, Places, Agents, HasTarget
    <2>3. signalled' \subseteq Agents' /\ mixed' \subseteq detached'
      BY DEF TypeOK, Phases, Places, Agents, HasTarget, Meet
    <2>4. lock' \in Pids \cup {None}
      BY DEF TypeOK, Phases, Places, Agents, HasTarget
    <2>5. pidFile' \in Pids \cup {None}
      BY DEF TypeOK, Phases, Places, Agents, HasTarget
    <2>6. pc' \in [Commands -> Places]
      BY DEF TypeOK, Phases, Places, Agents, HasTarget
    <2>7. target' \in [Commands -> Pids \cup {None}]
      BY DEF TypeOK, Phases, Places, Agents, HasTarget
    <2>8. commands' \in 0 .. MaxCommands
      BY DEF TypeOK, Phases, Places, Agents, HasTarget
    <2>9. others' \in 0 .. MaxOthers
      BY DEF TypeOK, Phases, Places, Agents, HasTarget
    <2>10. {disturbed', stale', hit'} \subseteq BOOLEAN
      BY DEF TypeOK, Phases, Places, Agents, HasTarget
    <2> QED
      BY <2>1, <2>2, <2>3, <2>4, <2>5, <2>6, <2>7, <2>8, <2>9, <2>10 DEF TypeOK
  <1>2. OneCommand'
    BY BeginAlone DEF TypeOK, Agents, Kept, Unnamed, Meet, daemonRunning, OneCommand, HasTarget,
       NoneLeft, OnlyChild, StillNamed, StaleSeen, Controllable
  <1>3. HasTarget'
    BY BeginAlone DEF TypeOK, Agents, Kept, Unnamed, Meet, daemonRunning, HasTarget, OneCommand,
       NoneLeft, OnlyChild, StillNamed, StaleSeen, Controllable
  <1>4. NoneLeft'
    BY BeginAlone DEF TypeOK, Agents, Kept, Unnamed, Meet, daemonRunning, NoneLeft, OneCommand,
       HasTarget, OnlyChild, StillNamed, StaleSeen, Controllable
  <1>5. OnlyChild'
    BY BeginAlone DEF TypeOK, Agents, Kept, Unnamed, Meet, daemonRunning, OnlyChild, OneCommand,
       HasTarget, NoneLeft, StillNamed, StaleSeen, Controllable
  <1>6. StillNamed'
    BY BeginAlone DEF TypeOK, Agents, Kept, Unnamed, Meet, daemonRunning, StillNamed, OneCommand,
       HasTarget, NoneLeft, OnlyChild, StaleSeen, Controllable
  <1>7. StaleSeen'
    BY BeginAlone DEF TypeOK, Agents, Kept, Unnamed, Meet, daemonRunning, StaleSeen, OneCommand,
       HasTarget, NoneLeft, OnlyChild, StillNamed, Controllable
  <1>8. Controllable'
    BY BeginAlone DEF TypeOK, Agents, Kept, Unnamed, Meet, daemonRunning, Controllable, OneCommand,
       HasTarget, NoneLeft, OnlyChild, StillNamed, StaleSeen
  <1>9. StopHitsAgent'
    BY BeginAlone DEF TypeOK, Agents, Kept, Unnamed, Meet, daemonRunning, StopHitsAgent, OneCommand,
       HasTarget, NoneLeft, OnlyChild, StillNamed, StaleSeen, Controllable
  <1> QED
    BY <1>1, <1>2, <1>3, <1>4, <1>5, <1>6, <1>7, <1>8, <1>9

LEMMA StartSpawnInv ==
    ASSUME Inv, NEW c \in Commands, NEW p \in Pids, StartSpawn(c, p)
    PROVE  Inv'
  <1> USE DEF StartSpawn, Goto, Begin, file, cli, Inv
  <1>1. TypeOK'
    <2>1. proc' \in [Pids -> Phases]
      BY DEF TypeOK, Phases, Places, Agents, HasTarget
    <2>2. detached' \subseteq Agents'
      BY DEF TypeOK, Phases, Places, Agents, HasTarget
    <2>3. signalled' \subseteq Agents' /\ mixed' \subseteq detached'
      BY DEF TypeOK, Phases, Places, Agents, HasTarget, Meet
    <2>4. lock' \in Pids \cup {None}
      BY DEF TypeOK, Phases, Places, Agents, HasTarget
    <2>5. pidFile' \in Pids \cup {None}
      BY DEF TypeOK, Phases, Places, Agents, HasTarget
    <2>6. pc' \in [Commands -> Places]
      BY DEF TypeOK, Phases, Places, Agents, HasTarget
    <2>7. target' \in [Commands -> Pids \cup {None}]
      BY DEF TypeOK, Phases, Places, Agents, HasTarget
    <2>8. commands' \in 0 .. MaxCommands
      BY DEF TypeOK, Phases, Places, Agents, HasTarget
    <2>9. others' \in 0 .. MaxOthers
      BY DEF TypeOK, Phases, Places, Agents, HasTarget
    <2>10. {disturbed', stale', hit'} \subseteq BOOLEAN
      BY DEF TypeOK, Phases, Places, Agents, HasTarget
    <2> QED
      BY <2>1, <2>2, <2>3, <2>4, <2>5, <2>6, <2>7, <2>8, <2>9, <2>10 DEF TypeOK
  <1>2. OneCommand'
    BY DEF TypeOK, Agents, Kept, Unnamed, Meet, daemonRunning, OneCommand, HasTarget, NoneLeft,
       OnlyChild, StillNamed, StaleSeen, Controllable
  <1>3. HasTarget'
    BY DEF TypeOK, Agents, Kept, Unnamed, Meet, daemonRunning, HasTarget, OneCommand, NoneLeft,
       OnlyChild, StillNamed, StaleSeen, Controllable
  <1>4. NoneLeft'
    BY DEF TypeOK, Agents, Kept, Unnamed, Meet, daemonRunning, NoneLeft, OneCommand, HasTarget,
       OnlyChild, StillNamed, StaleSeen, Controllable
  <1>5. OnlyChild'
    BY DEF TypeOK, Agents, Kept, Unnamed, Meet, daemonRunning, OnlyChild, OneCommand, HasTarget,
       NoneLeft, StillNamed, StaleSeen, Controllable
  <1>6. StillNamed'
    BY DEF TypeOK, Agents, Kept, Unnamed, Meet, daemonRunning, StillNamed, OneCommand, HasTarget,
       NoneLeft, OnlyChild, StaleSeen, Controllable
  <1>7. StaleSeen'
    BY DEF TypeOK, Agents, Kept, Unnamed, Meet, daemonRunning, StaleSeen, OneCommand, HasTarget,
       NoneLeft, OnlyChild, StillNamed, Controllable
  <1>8. Controllable'
    BY DEF TypeOK, Agents, Kept, Unnamed, Meet, daemonRunning, Controllable, OneCommand, HasTarget,
       NoneLeft, OnlyChild, StillNamed, StaleSeen
  <1>9. StopHitsAgent'
    BY DEF TypeOK, Agents, Kept, Unnamed, Meet, daemonRunning, StopHitsAgent, OneCommand, HasTarget,
       NoneLeft, OnlyChild, StillNamed, StaleSeen, Controllable
  <1> QED
    BY <1>1, <1>2, <1>3, <1>4, <1>5, <1>6, <1>7, <1>8, <1>9

LEMMA StartWriteInv ==
    ASSUME Inv, NEW c \in Commands, StartWrite(c)
    PROVE  Inv'
  <1> USE DEF StartWrite, Goto, Begin, file, cli, Inv
  <1>1. TypeOK'
    <2>1. proc' \in [Pids -> Phases]
      BY DEF TypeOK, Phases, Places, Agents, HasTarget
    <2>2. detached' \subseteq Agents'
      BY DEF TypeOK, Phases, Places, Agents, HasTarget
    <2>3. signalled' \subseteq Agents' /\ mixed' \subseteq detached'
      BY DEF TypeOK, Phases, Places, Agents, HasTarget, Meet
    <2>4. lock' \in Pids \cup {None}
      BY DEF TypeOK, Phases, Places, Agents, HasTarget
    <2>5. pidFile' \in Pids \cup {None}
      BY DEF TypeOK, Phases, Places, Agents, HasTarget
    <2>6. pc' \in [Commands -> Places]
      BY DEF TypeOK, Phases, Places, Agents, HasTarget
    <2>7. target' \in [Commands -> Pids \cup {None}]
      BY DEF TypeOK, Phases, Places, Agents, HasTarget
    <2>8. commands' \in 0 .. MaxCommands
      BY DEF TypeOK, Phases, Places, Agents, HasTarget
    <2>9. others' \in 0 .. MaxOthers
      BY DEF TypeOK, Phases, Places, Agents, HasTarget
    <2>10. {disturbed', stale', hit'} \subseteq BOOLEAN
      BY DEF TypeOK, Phases, Places, Agents, HasTarget
    <2> QED
      BY <2>1, <2>2, <2>3, <2>4, <2>5, <2>6, <2>7, <2>8, <2>9, <2>10 DEF TypeOK
  <1>2. OneCommand'
    BY DEF TypeOK, Agents, Kept, Unnamed, Meet, daemonRunning, OneCommand, HasTarget, NoneLeft,
       OnlyChild, StillNamed, StaleSeen, Controllable
  <1>3. HasTarget'
    BY DEF TypeOK, Agents, Kept, Unnamed, Meet, daemonRunning, HasTarget, OneCommand, NoneLeft,
       OnlyChild, StillNamed, StaleSeen, Controllable
  <1>4. NoneLeft'
    BY DEF TypeOK, Agents, Kept, Unnamed, Meet, daemonRunning, NoneLeft, OneCommand, HasTarget,
       OnlyChild, StillNamed, StaleSeen, Controllable
  <1>5. OnlyChild'
    BY DEF TypeOK, Agents, Kept, Unnamed, Meet, daemonRunning, OnlyChild, OneCommand, HasTarget,
       NoneLeft, StillNamed, StaleSeen, Controllable
  <1>6. StillNamed'
    BY DEF TypeOK, Agents, Kept, Unnamed, Meet, daemonRunning, StillNamed, OneCommand, HasTarget,
       NoneLeft, OnlyChild, StaleSeen, Controllable
  <1>7. StaleSeen'
    BY DEF TypeOK, Agents, Kept, Unnamed, Meet, daemonRunning, StaleSeen, OneCommand, HasTarget,
       NoneLeft, OnlyChild, StillNamed, Controllable
  <1>8. Controllable'
    BY DEF TypeOK, Agents, Kept, Unnamed, Meet, daemonRunning, Controllable, OneCommand, HasTarget,
       NoneLeft, OnlyChild, StillNamed, StaleSeen
  <1>9. StopHitsAgent'
    BY DEF TypeOK, Agents, Kept, Unnamed, Meet, daemonRunning, StopHitsAgent, OneCommand, HasTarget,
       NoneLeft, OnlyChild, StillNamed, StaleSeen, Controllable
  <1> QED
    BY <1>1, <1>2, <1>3, <1>4, <1>5, <1>6, <1>7, <1>8, <1>9

LEMMA StopReadInv ==
    ASSUME Inv, NEW c \in Commands, StopRead(c)
    PROVE  Inv'
  <1> USE DEF StopRead, Goto, Begin, file, cli, Inv
  <1>1. TypeOK'
    <2>1. proc' \in [Pids -> Phases]
      BY DEF TypeOK, Phases, Places, Agents, HasTarget
    <2>2. detached' \subseteq Agents'
      BY DEF TypeOK, Phases, Places, Agents, HasTarget
    <2>3. signalled' \subseteq Agents' /\ mixed' \subseteq detached'
      BY DEF TypeOK, Phases, Places, Agents, HasTarget, Meet
    <2>4. lock' \in Pids \cup {None}
      BY DEF TypeOK, Phases, Places, Agents, HasTarget
    <2>5. pidFile' \in Pids \cup {None}
      BY DEF TypeOK, Phases, Places, Agents, HasTarget
    <2>6. pc' \in [Commands -> Places]
      BY DEF TypeOK, Phases, Places, Agents, HasTarget
    <2>7. target' \in [Commands -> Pids \cup {None}]
      BY DEF TypeOK, Phases, Places, Agents, HasTarget
    <2>8. commands' \in 0 .. MaxCommands
      BY DEF TypeOK, Phases, Places, Agents, HasTarget
    <2>9. others' \in 0 .. MaxOthers
      BY DEF TypeOK, Phases, Places, Agents, HasTarget
    <2>10. {disturbed', stale', hit'} \subseteq BOOLEAN
      BY DEF TypeOK, Phases, Places, Agents, HasTarget
    <2> QED
      BY <2>1, <2>2, <2>3, <2>4, <2>5, <2>6, <2>7, <2>8, <2>9, <2>10 DEF TypeOK
  <1>2. OneCommand'
    BY BeginAlone DEF TypeOK, Agents, Kept, Unnamed, Meet, daemonRunning, OneCommand, HasTarget,
       NoneLeft, OnlyChild, StillNamed, StaleSeen, Controllable
  <1>3. HasTarget'
    BY BeginAlone DEF TypeOK, Agents, Kept, Unnamed, Meet, daemonRunning, HasTarget, OneCommand,
       NoneLeft, OnlyChild, StillNamed, StaleSeen, Controllable
  <1>4. NoneLeft'
    BY BeginAlone DEF TypeOK, Agents, Kept, Unnamed, Meet, daemonRunning, NoneLeft, OneCommand,
       HasTarget, OnlyChild, StillNamed, StaleSeen, Controllable
  <1>5. OnlyChild'
    BY BeginAlone DEF TypeOK, Agents, Kept, Unnamed, Meet, daemonRunning, OnlyChild, OneCommand,
       HasTarget, NoneLeft, StillNamed, StaleSeen, Controllable
  <1>6. StillNamed'
    BY BeginAlone DEF TypeOK, Agents, Kept, Unnamed, Meet, daemonRunning, StillNamed, OneCommand,
       HasTarget, NoneLeft, OnlyChild, StaleSeen, Controllable
  <1>7. StaleSeen'
    BY BeginAlone DEF TypeOK, Agents, Kept, Unnamed, Meet, daemonRunning, StaleSeen, OneCommand,
       HasTarget, NoneLeft, OnlyChild, StillNamed, Controllable
  <1>8. Controllable'
    BY BeginAlone DEF TypeOK, Agents, Kept, Unnamed, Meet, daemonRunning, Controllable, OneCommand,
       HasTarget, NoneLeft, OnlyChild, StillNamed, StaleSeen
  <1>9. StopHitsAgent'
    BY BeginAlone DEF TypeOK, Agents, Kept, Unnamed, Meet, daemonRunning, StopHitsAgent, OneCommand,
       HasTarget, NoneLeft, OnlyChild, StillNamed, StaleSeen, Controllable
  <1> QED
    BY <1>1, <1>2, <1>3, <1>4, <1>5, <1>6, <1>7, <1>8, <1>9

LEMMA StopKillInv ==
    ASSUME Inv, NEW c \in Commands, StopKill(c)
    PROVE  Inv'
  <1> USE DEF StopKill, Goto, Begin, file, cli, Inv
  <1>1. TypeOK'
    <2>1. proc' \in [Pids -> Phases]
      BY DEF TypeOK, Phases, Places, Agents, HasTarget
    <2>2. detached' \subseteq Agents'
      BY DEF TypeOK, Phases, Places, Agents, HasTarget
    <2>3. signalled' \subseteq Agents' /\ mixed' \subseteq detached'
      BY DEF TypeOK, Phases, Places, Agents, HasTarget, Meet
    <2>4. lock' \in Pids \cup {None}
      BY DEF TypeOK, Phases, Places, Agents, HasTarget
    <2>5. pidFile' \in Pids \cup {None}
      BY DEF TypeOK, Phases, Places, Agents, HasTarget
    <2>6. pc' \in [Commands -> Places]
      BY DEF TypeOK, Phases, Places, Agents, HasTarget
    <2>7. target' \in [Commands -> Pids \cup {None}]
      BY DEF TypeOK, Phases, Places, Agents, HasTarget
    <2>8. commands' \in 0 .. MaxCommands
      BY DEF TypeOK, Phases, Places, Agents, HasTarget
    <2>9. others' \in 0 .. MaxOthers
      BY DEF TypeOK, Phases, Places, Agents, HasTarget
    <2>10. {disturbed', stale', hit'} \subseteq BOOLEAN
      BY DEF TypeOK, Phases, Places, Agents, HasTarget
    <2> QED
      BY <2>1, <2>2, <2>3, <2>4, <2>5, <2>6, <2>7, <2>8, <2>9, <2>10 DEF TypeOK
  <1>2. OneCommand'
    BY DEF TypeOK, Agents, Kept, Unnamed, Meet, daemonRunning, OneCommand, HasTarget, NoneLeft,
       OnlyChild, StillNamed, StaleSeen, Controllable
  <1>3. HasTarget'
    BY DEF TypeOK, Agents, Kept, Unnamed, Meet, daemonRunning, HasTarget, OneCommand, NoneLeft,
       OnlyChild, StillNamed, StaleSeen, Controllable
  <1>4. NoneLeft'
    BY DEF TypeOK, Agents, Kept, Unnamed, Meet, daemonRunning, NoneLeft, OneCommand, HasTarget,
       OnlyChild, StillNamed, StaleSeen, Controllable
  <1>5. OnlyChild'
    BY DEF TypeOK, Agents, Kept, Unnamed, Meet, daemonRunning, OnlyChild, OneCommand, HasTarget,
       NoneLeft, StillNamed, StaleSeen, Controllable
  <1>6. StillNamed'
    BY DEF TypeOK, Agents, Kept, Unnamed, Meet, daemonRunning, StillNamed, OneCommand, HasTarget,
       NoneLeft, OnlyChild, StaleSeen, Controllable
  <1>7. StaleSeen'
    BY DEF TypeOK, Agents, Kept, Unnamed, Meet, daemonRunning, StaleSeen, OneCommand, HasTarget,
       NoneLeft, OnlyChild, StillNamed, Controllable
  <1>8. Controllable'
    BY DEF TypeOK, Agents, Kept, Unnamed, Meet, daemonRunning, Controllable, OneCommand, HasTarget,
       NoneLeft, OnlyChild, StillNamed, StaleSeen
  <1>9. StopHitsAgent'
    BY DEF TypeOK, Agents, Kept, Unnamed, Meet, daemonRunning, StopHitsAgent, OneCommand, HasTarget,
       NoneLeft, OnlyChild, StillNamed, StaleSeen, Controllable
  <1> QED
    BY <1>1, <1>2, <1>3, <1>4, <1>5, <1>6, <1>7, <1>8, <1>9

LEMMA StopDeniedInv ==
    ASSUME Inv, NEW c \in Commands, StopDenied(c)
    PROVE  Inv'
  <1> USE DEF StopDenied, Goto, Begin, file, cli, Inv
  <1>1. TypeOK'
    <2>1. proc' \in [Pids -> Phases]
      BY DEF TypeOK, Phases, Places, Agents, HasTarget
    <2>2. detached' \subseteq Agents'
      BY DEF TypeOK, Phases, Places, Agents, HasTarget
    <2>3. signalled' \subseteq Agents' /\ mixed' \subseteq detached'
      BY DEF TypeOK, Phases, Places, Agents, HasTarget, Meet
    <2>4. lock' \in Pids \cup {None}
      BY DEF TypeOK, Phases, Places, Agents, HasTarget
    <2>5. pidFile' \in Pids \cup {None}
      BY DEF TypeOK, Phases, Places, Agents, HasTarget
    <2>6. pc' \in [Commands -> Places]
      BY DEF TypeOK, Phases, Places, Agents, HasTarget
    <2>7. target' \in [Commands -> Pids \cup {None}]
      BY DEF TypeOK, Phases, Places, Agents, HasTarget
    <2>8. commands' \in 0 .. MaxCommands
      BY DEF TypeOK, Phases, Places, Agents, HasTarget
    <2>9. others' \in 0 .. MaxOthers
      BY DEF TypeOK, Phases, Places, Agents, HasTarget
    <2>10. {disturbed', stale', hit'} \subseteq BOOLEAN
      BY DEF TypeOK, Phases, Places, Agents, HasTarget
    <2> QED
      BY <2>1, <2>2, <2>3, <2>4, <2>5, <2>6, <2>7, <2>8, <2>9, <2>10 DEF TypeOK
  <1>2. OneCommand'
    BY DEF TypeOK, Agents, Kept, Unnamed, Meet, daemonRunning, OneCommand, HasTarget, NoneLeft,
       OnlyChild, StillNamed, StaleSeen, Controllable
  <1>3. HasTarget'
    BY DEF TypeOK, Agents, Kept, Unnamed, Meet, daemonRunning, HasTarget, OneCommand, NoneLeft,
       OnlyChild, StillNamed, StaleSeen, Controllable
  <1>4. NoneLeft'
    BY DEF TypeOK, Agents, Kept, Unnamed, Meet, daemonRunning, NoneLeft, OneCommand, HasTarget,
       OnlyChild, StillNamed, StaleSeen, Controllable
  <1>5. OnlyChild'
    BY DEF TypeOK, Agents, Kept, Unnamed, Meet, daemonRunning, OnlyChild, OneCommand, HasTarget,
       NoneLeft, StillNamed, StaleSeen, Controllable
  <1>6. StillNamed'
    BY DEF TypeOK, Agents, Kept, Unnamed, Meet, daemonRunning, StillNamed, OneCommand, HasTarget,
       NoneLeft, OnlyChild, StaleSeen, Controllable
  <1>7. StaleSeen'
    BY DEF TypeOK, Agents, Kept, Unnamed, Meet, daemonRunning, StaleSeen, OneCommand, HasTarget,
       NoneLeft, OnlyChild, StillNamed, Controllable
  <1>8. Controllable'
    BY DEF TypeOK, Agents, Kept, Unnamed, Meet, daemonRunning, Controllable, OneCommand, HasTarget,
       NoneLeft, OnlyChild, StillNamed, StaleSeen
  <1>9. StopHitsAgent'
    BY DEF TypeOK, Agents, Kept, Unnamed, Meet, daemonRunning, StopHitsAgent, OneCommand, HasTarget,
       NoneLeft, OnlyChild, StillNamed, StaleSeen, Controllable
  <1> QED
    BY <1>1, <1>2, <1>3, <1>4, <1>5, <1>6, <1>7, <1>8, <1>9

LEMMA StopRemoveInv ==
    ASSUME Inv, NEW c \in Commands, StopRemove(c)
    PROVE  Inv'
  <1> USE DEF StopRemove, Goto, Begin, file, cli, Inv
  <1>1. TypeOK'
    <2>1. proc' \in [Pids -> Phases]
      BY DEF TypeOK, Phases, Places, Agents, HasTarget
    <2>2. detached' \subseteq Agents'
      BY DEF TypeOK, Phases, Places, Agents, HasTarget
    <2>3. signalled' \subseteq Agents' /\ mixed' \subseteq detached'
      BY DEF TypeOK, Phases, Places, Agents, HasTarget, Meet
    <2>4. lock' \in Pids \cup {None}
      BY DEF TypeOK, Phases, Places, Agents, HasTarget
    <2>5. pidFile' \in Pids \cup {None}
      BY DEF TypeOK, Phases, Places, Agents, HasTarget
    <2>6. pc' \in [Commands -> Places]
      BY DEF TypeOK, Phases, Places, Agents, HasTarget
    <2>7. target' \in [Commands -> Pids \cup {None}]
      BY DEF TypeOK, Phases, Places, Agents, HasTarget
    <2>8. commands' \in 0 .. MaxCommands
      BY DEF TypeOK, Phases, Places, Agents, HasTarget
    <2>9. others' \in 0 .. MaxOthers
      BY DEF TypeOK, Phases, Places, Agents, HasTarget
    <2>10. {disturbed', stale', hit'} \subseteq BOOLEAN
      BY DEF TypeOK, Phases, Places, Agents, HasTarget
    <2> QED
      BY <2>1, <2>2, <2>3, <2>4, <2>5, <2>6, <2>7, <2>8, <2>9, <2>10 DEF TypeOK
  <1>2. OneCommand'
    BY DEF TypeOK, Agents, Kept, Unnamed, Meet, daemonRunning, OneCommand, HasTarget, NoneLeft,
       OnlyChild, StillNamed, StaleSeen, Controllable
  <1>3. HasTarget'
    BY DEF TypeOK, Agents, Kept, Unnamed, Meet, daemonRunning, HasTarget, OneCommand, NoneLeft,
       OnlyChild, StillNamed, StaleSeen, Controllable
  <1>4. NoneLeft'
    BY DEF TypeOK, Agents, Kept, Unnamed, Meet, daemonRunning, NoneLeft, OneCommand, HasTarget,
       OnlyChild, StillNamed, StaleSeen, Controllable
  <1>5. OnlyChild'
    BY DEF TypeOK, Agents, Kept, Unnamed, Meet, daemonRunning, OnlyChild, OneCommand, HasTarget,
       NoneLeft, StillNamed, StaleSeen, Controllable
  <1>6. StillNamed'
    BY DEF TypeOK, Agents, Kept, Unnamed, Meet, daemonRunning, StillNamed, OneCommand, HasTarget,
       NoneLeft, OnlyChild, StaleSeen, Controllable
  <1>7. StaleSeen'
    BY DEF TypeOK, Agents, Kept, Unnamed, Meet, daemonRunning, StaleSeen, OneCommand, HasTarget,
       NoneLeft, OnlyChild, StillNamed, Controllable
  <1>8. Controllable'
    BY DEF TypeOK, Agents, Kept, Unnamed, Meet, daemonRunning, Controllable, OneCommand, HasTarget,
       NoneLeft, OnlyChild, StillNamed, StaleSeen
  <1>9. StopHitsAgent'
    BY DEF TypeOK, Agents, Kept, Unnamed, Meet, daemonRunning, StopHitsAgent, OneCommand, HasTarget,
       NoneLeft, OnlyChild, StillNamed, StaleSeen, Controllable
  <1> QED
    BY <1>1, <1>2, <1>3, <1>4, <1>5, <1>6, <1>7, <1>8, <1>9

LEMMA AbortInv ==
    ASSUME Inv, NEW c \in Commands, Abort(c)
    PROVE  Inv'
  <1> USE DEF Abort, Goto, Begin, file, cli, Inv
  <1>1. TypeOK'
    <2>1. proc' \in [Pids -> Phases]
      BY DEF TypeOK, Phases, Places, Agents, HasTarget
    <2>2. detached' \subseteq Agents'
      BY DEF TypeOK, Phases, Places, Agents, HasTarget
    <2>3. signalled' \subseteq Agents' /\ mixed' \subseteq detached'
      BY DEF TypeOK, Phases, Places, Agents, HasTarget, Meet
    <2>4. lock' \in Pids \cup {None}
      BY DEF TypeOK, Phases, Places, Agents, HasTarget
    <2>5. pidFile' \in Pids \cup {None}
      BY DEF TypeOK, Phases, Places, Agents, HasTarget
    <2>6. pc' \in [Commands -> Places]
      BY DEF TypeOK, Phases, Places, Agents, HasTarget
    <2>7. target' \in [Commands -> Pids \cup {None}]
      BY DEF TypeOK, Phases, Places, Agents, HasTarget
    <2>8. commands' \in 0 .. MaxCommands
      BY DEF TypeOK, Phases, Places, Agents, HasTarget
    <2>9. others' \in 0 .. MaxOthers
      BY DEF TypeOK, Phases, Places, Agents, HasTarget
    <2>10. {disturbed', stale', hit'} \subseteq BOOLEAN
      BY DEF TypeOK, Phases, Places, Agents, HasTarget
    <2> QED
      BY <2>1, <2>2, <2>3, <2>4, <2>5, <2>6, <2>7, <2>8, <2>9, <2>10 DEF TypeOK
  <1>2. OneCommand'
    BY DEF TypeOK, Agents, Kept, Unnamed, Meet, daemonRunning, OneCommand, HasTarget, NoneLeft,
       OnlyChild, StillNamed, StaleSeen, Controllable
  <1>3. HasTarget'
    BY DEF TypeOK, Agents, Kept, Unnamed, Meet, daemonRunning, HasTarget, OneCommand, NoneLeft,
       OnlyChild, StillNamed, StaleSeen, Controllable
  <1>4. NoneLeft'
    BY DEF TypeOK, Agents, Kept, Unnamed, Meet, daemonRunning, NoneLeft, OneCommand, HasTarget,
       OnlyChild, StillNamed, StaleSeen, Controllable
  <1>5. OnlyChild'
    BY DEF TypeOK, Agents, Kept, Unnamed, Meet, daemonRunning, OnlyChild, OneCommand, HasTarget,
       NoneLeft, StillNamed, StaleSeen, Controllable
  <1>6. StillNamed'
    BY DEF TypeOK, Agents, Kept, Unnamed, Meet, daemonRunning, StillNamed, OneCommand, HasTarget,
       NoneLeft, OnlyChild, StaleSeen, Controllable
  <1>7. StaleSeen'
    BY DEF TypeOK, Agents, Kept, Unnamed, Meet, daemonRunning, StaleSeen, OneCommand, HasTarget,
       NoneLeft, OnlyChild, StillNamed, Controllable
  <1>8. Controllable'
    BY DEF TypeOK, Agents, Kept, Unnamed, Meet, daemonRunning, Controllable, OneCommand, HasTarget,
       NoneLeft, OnlyChild, StillNamed, StaleSeen
  <1>9. StopHitsAgent'
    BY DEF TypeOK, Agents, Kept, Unnamed, Meet, daemonRunning, StopHitsAgent, OneCommand, HasTarget,
       NoneLeft, OnlyChild, StillNamed, StaleSeen, Controllable
  <1> QED
    BY <1>1, <1>2, <1>3, <1>4, <1>5, <1>6, <1>7, <1>8, <1>9

LEMMA RunForegroundInv ==
    ASSUME Inv, NEW p \in Pids, RunForeground(p)
    PROVE  Inv'
  <1> USE DEF RunForeground, file, cli, Inv
  <1>1. TypeOK'
    <2>1. proc' \in [Pids -> Phases]
      BY DEF TypeOK, Phases, Places, Agents, HasTarget
    <2>2. detached' \subseteq Agents'
      BY DEF TypeOK, Phases, Places, Agents, HasTarget
    <2>3. signalled' \subseteq Agents' /\ mixed' \subseteq detached'
      BY DEF TypeOK, Phases, Places, Agents, HasTarget, Meet
    <2>4. lock' \in Pids \cup {None}
      BY DEF TypeOK, Phases, Places, Agents, HasTarget
    <2>5. pidFile' \in Pids \cup {None}
      BY DEF TypeOK, Phases, Places, Agents, HasTarget
    <2>6. pc' \in [Commands -> Places]
      BY DEF TypeOK, Phases, Places, Agents, HasTarget
    <2>7. target' \in [Commands -> Pids \cup {None}]
      BY DEF TypeOK, Phases, Places, Agents, HasTarget
    <2>8. commands' \in 0 .. MaxCommands
      BY DEF TypeOK, Phases, Places, Agents, HasTarget
    <2>9. others' \in 0 .. MaxOthers
      BY DEF TypeOK, Phases, Places, Agents, HasTarget
    <2>10. {disturbed', stale', hit'} \subseteq BOOLEAN
      BY DEF TypeOK, Phases, Places, Agents, HasTarget
    <2> QED
      BY <2>1, <2>2, <2>3, <2>4, <2>5, <2>6, <2>7, <2>8, <2>9, <2>10 DEF TypeOK
  <1>2. OneCommand'
    BY DEF TypeOK, Agents, Kept, Unnamed, Meet, daemonRunning, OneCommand, HasTarget, NoneLeft,
       OnlyChild, StillNamed, StaleSeen, Controllable
  <1>3. HasTarget'
    BY DEF TypeOK, Agents, Kept, Unnamed, Meet, daemonRunning, HasTarget, OneCommand, NoneLeft,
       OnlyChild, StillNamed, StaleSeen, Controllable
  <1>4. NoneLeft'
    BY DEF TypeOK, Agents, Kept, Unnamed, Meet, daemonRunning, NoneLeft, OneCommand, HasTarget,
       OnlyChild, StillNamed, StaleSeen, Controllable
  <1>5. OnlyChild'
    BY DEF TypeOK, Agents, Kept, Unnamed, Meet, daemonRunning, OnlyChild, OneCommand, HasTarget,
       NoneLeft, StillNamed, StaleSeen, Controllable
  <1>6. StillNamed'
    BY DEF TypeOK, Agents, Kept, Unnamed, Meet, daemonRunning, StillNamed, OneCommand, HasTarget,
       NoneLeft, OnlyChild, StaleSeen, Controllable
  <1>7. StaleSeen'
    BY DEF TypeOK, Agents, Kept, Unnamed, Meet, daemonRunning, StaleSeen, OneCommand, HasTarget,
       NoneLeft, OnlyChild, StillNamed, Controllable
  <1>8. Controllable'
    BY DEF TypeOK, Agents, Kept, Unnamed, Meet, daemonRunning, Controllable, OneCommand, HasTarget,
       NoneLeft, OnlyChild, StillNamed, StaleSeen
  <1>9. StopHitsAgent'
    BY DEF TypeOK, Agents, Kept, Unnamed, Meet, daemonRunning, StopHitsAgent, OneCommand, HasTarget,
       NoneLeft, OnlyChild, StillNamed, StaleSeen, Controllable
  <1> QED
    BY <1>1, <1>2, <1>3, <1>4, <1>5, <1>6, <1>7, <1>8, <1>9

LEMMA OpenStateInv ==
    ASSUME Inv, NEW p \in Pids, OpenState(p)
    PROVE  Inv'
  <1> USE DEF OpenState, file, cli, Inv
  <1>1. TypeOK'
    <2>1. proc' \in [Pids -> Phases]
      BY DEF TypeOK, Phases, Places, Agents, HasTarget
    <2>2. detached' \subseteq Agents'
      BY DEF TypeOK, Phases, Places, Agents, HasTarget
    <2>3. signalled' \subseteq Agents' /\ mixed' \subseteq detached'
      BY DEF TypeOK, Phases, Places, Agents, HasTarget, Meet
    <2>4. lock' \in Pids \cup {None}
      BY DEF TypeOK, Phases, Places, Agents, HasTarget
    <2>5. pidFile' \in Pids \cup {None}
      BY DEF TypeOK, Phases, Places, Agents, HasTarget
    <2>6. pc' \in [Commands -> Places]
      BY DEF TypeOK, Phases, Places, Agents, HasTarget
    <2>7. target' \in [Commands -> Pids \cup {None}]
      BY DEF TypeOK, Phases, Places, Agents, HasTarget
    <2>8. commands' \in 0 .. MaxCommands
      BY DEF TypeOK, Phases, Places, Agents, HasTarget
    <2>9. others' \in 0 .. MaxOthers
      BY DEF TypeOK, Phases, Places, Agents, HasTarget
    <2>10. {disturbed', stale', hit'} \subseteq BOOLEAN
      BY DEF TypeOK, Phases, Places, Agents, HasTarget
    <2> QED
      BY <2>1, <2>2, <2>3, <2>4, <2>5, <2>6, <2>7, <2>8, <2>9, <2>10 DEF TypeOK
  <1>2. OneCommand'
    BY DEF TypeOK, Agents, Kept, Unnamed, Meet, daemonRunning, OneCommand, HasTarget, NoneLeft,
       OnlyChild, StillNamed, StaleSeen, Controllable
  <1>3. HasTarget'
    BY DEF TypeOK, Agents, Kept, Unnamed, Meet, daemonRunning, HasTarget, OneCommand, NoneLeft,
       OnlyChild, StillNamed, StaleSeen, Controllable
  <1>4. NoneLeft'
    BY DEF TypeOK, Agents, Kept, Unnamed, Meet, daemonRunning, NoneLeft, OneCommand, HasTarget,
       OnlyChild, StillNamed, StaleSeen, Controllable
  <1>5. OnlyChild'
    BY DEF TypeOK, Agents, Kept, Unnamed, Meet, daemonRunning, OnlyChild, OneCommand, HasTarget,
       NoneLeft, StillNamed, StaleSeen, Controllable
  <1>6. StillNamed'
    BY DEF TypeOK, Agents, Kept, Unnamed, Meet, daemonRunning, StillNamed, OneCommand, HasTarget,
       NoneLeft, OnlyChild, StaleSeen, Controllable
  <1>7. StaleSeen'
    BY DEF TypeOK, Agents, Kept, Unnamed, Meet, daemonRunning, StaleSeen, OneCommand, HasTarget,
       NoneLeft, OnlyChild, StillNamed, Controllable
  <1>8. Controllable'
    BY DEF TypeOK, Agents, Kept, Unnamed, Meet, daemonRunning, Controllable, OneCommand, HasTarget,
       NoneLeft, OnlyChild, StillNamed, StaleSeen
  <1>9. StopHitsAgent'
    BY DEF TypeOK, Agents, Kept, Unnamed, Meet, daemonRunning, StopHitsAgent, OneCommand, HasTarget,
       NoneLeft, OnlyChild, StillNamed, StaleSeen, Controllable
  <1> QED
    BY <1>1, <1>2, <1>3, <1>4, <1>5, <1>6, <1>7, <1>8, <1>9

LEMMA EndInv ==
    ASSUME Inv, NEW p \in Pids, End(p)
    PROVE  Inv'
  <1> USE DEF End, file, cli, Inv
  <1>1. TypeOK'
    <2>1. proc' \in [Pids -> Phases]
      BY DEF TypeOK, Phases, Places, Agents, HasTarget
    <2>2. detached' \subseteq Agents'
      BY DEF TypeOK, Phases, Places, Agents, HasTarget
    <2>3. signalled' \subseteq Agents' /\ mixed' \subseteq detached'
      BY DEF TypeOK, Phases, Places, Agents, HasTarget, Meet
    <2>4. lock' \in Pids \cup {None}
      BY DEF TypeOK, Phases, Places, Agents, HasTarget
    <2>5. pidFile' \in Pids \cup {None}
      BY DEF TypeOK, Phases, Places, Agents, HasTarget
    <2>6. pc' \in [Commands -> Places]
      BY DEF TypeOK, Phases, Places, Agents, HasTarget
    <2>7. target' \in [Commands -> Pids \cup {None}]
      BY DEF TypeOK, Phases, Places, Agents, HasTarget
    <2>8. commands' \in 0 .. MaxCommands
      BY DEF TypeOK, Phases, Places, Agents, HasTarget
    <2>9. others' \in 0 .. MaxOthers
      BY DEF TypeOK, Phases, Places, Agents, HasTarget
    <2>10. {disturbed', stale', hit'} \subseteq BOOLEAN
      BY DEF TypeOK, Phases, Places, Agents, HasTarget
    <2> QED
      BY <2>1, <2>2, <2>3, <2>4, <2>5, <2>6, <2>7, <2>8, <2>9, <2>10 DEF TypeOK
  <1>2. OneCommand'
    BY DEF TypeOK, Agents, Kept, Unnamed, Meet, daemonRunning, OneCommand, HasTarget, NoneLeft,
       OnlyChild, StillNamed, StaleSeen, Controllable
  <1>3. HasTarget'
    BY DEF TypeOK, Agents, Kept, Unnamed, Meet, daemonRunning, HasTarget, OneCommand, NoneLeft,
       OnlyChild, StillNamed, StaleSeen, Controllable
  <1>4. NoneLeft'
    BY DEF TypeOK, Agents, Kept, Unnamed, Meet, daemonRunning, NoneLeft, OneCommand, HasTarget,
       OnlyChild, StillNamed, StaleSeen, Controllable
  <1>5. OnlyChild'
    BY DEF TypeOK, Agents, Kept, Unnamed, Meet, daemonRunning, OnlyChild, OneCommand, HasTarget,
       NoneLeft, StillNamed, StaleSeen, Controllable
  <1>6. StillNamed'
    BY DEF TypeOK, Agents, Kept, Unnamed, Meet, daemonRunning, StillNamed, OneCommand, HasTarget,
       NoneLeft, OnlyChild, StaleSeen, Controllable
  <1>7. StaleSeen'
    BY DEF TypeOK, Agents, Kept, Unnamed, Meet, daemonRunning, StaleSeen, OneCommand, HasTarget,
       NoneLeft, OnlyChild, StillNamed, Controllable
  <1>8. Controllable'
    BY DEF TypeOK, Agents, Kept, Unnamed, Meet, daemonRunning, Controllable, OneCommand, HasTarget,
       NoneLeft, OnlyChild, StillNamed, StaleSeen
  <1>9. StopHitsAgent'
    BY DEF TypeOK, Agents, Kept, Unnamed, Meet, daemonRunning, StopHitsAgent, OneCommand, HasTarget,
       NoneLeft, OnlyChild, StillNamed, StaleSeen, Controllable
  <1> QED
    BY <1>1, <1>2, <1>3, <1>4, <1>5, <1>6, <1>7, <1>8, <1>9

LEMMA OtherProcessInv ==
    ASSUME Inv, NEW p \in Pids, NEW kind \in {"other", "foreign"}, OtherProcess(p, kind)
    PROVE  Inv'
  <1> USE DEF OtherProcess, file, cli, Inv
  <1>1. TypeOK'
    <2>1. proc' \in [Pids -> Phases]
      BY DEF TypeOK, Phases, Places, Agents, HasTarget
    <2>2. detached' \subseteq Agents'
      BY DEF TypeOK, Phases, Places, Agents, HasTarget
    <2>3. signalled' \subseteq Agents' /\ mixed' \subseteq detached'
      BY DEF TypeOK, Phases, Places, Agents, HasTarget, Meet
    <2>4. lock' \in Pids \cup {None}
      BY DEF TypeOK, Phases, Places, Agents, HasTarget
    <2>5. pidFile' \in Pids \cup {None}
      BY DEF TypeOK, Phases, Places, Agents, HasTarget
    <2>6. pc' \in [Commands -> Places]
      BY DEF TypeOK, Phases, Places, Agents, HasTarget
    <2>7. target' \in [Commands -> Pids \cup {None}]
      BY DEF TypeOK, Phases, Places, Agents, HasTarget
    <2>8. commands' \in 0 .. MaxCommands
      BY DEF TypeOK, Phases, Places, Agents, HasTarget
    <2>9. others' \in 0 .. MaxOthers
      BY DEF TypeOK, Phases, Places, Agents, HasTarget
    <2>10. {disturbed', stale', hit'} \subseteq BOOLEAN
      BY DEF TypeOK, Phases, Places, Agents, HasTarget
    <2> QED
      BY <2>1, <2>2, <2>3, <2>4, <2>5, <2>6, <2>7, <2>8, <2>9, <2>10 DEF TypeOK
  <1>2. OneCommand'
    BY DEF TypeOK, Agents, Kept, Unnamed, Meet, daemonRunning, OneCommand, HasTarget, NoneLeft,
       OnlyChild, StillNamed, StaleSeen, Controllable
  <1>3. HasTarget'
    BY DEF TypeOK, Agents, Kept, Unnamed, Meet, daemonRunning, HasTarget, OneCommand, NoneLeft,
       OnlyChild, StillNamed, StaleSeen, Controllable
  <1>4. NoneLeft'
    BY DEF TypeOK, Agents, Kept, Unnamed, Meet, daemonRunning, NoneLeft, OneCommand, HasTarget,
       OnlyChild, StillNamed, StaleSeen, Controllable
  <1>5. OnlyChild'
    BY DEF TypeOK, Agents, Kept, Unnamed, Meet, daemonRunning, OnlyChild, OneCommand, HasTarget,
       NoneLeft, StillNamed, StaleSeen, Controllable
  <1>6. StillNamed'
    BY DEF TypeOK, Agents, Kept, Unnamed, Meet, daemonRunning, StillNamed, OneCommand, HasTarget,
       NoneLeft, OnlyChild, StaleSeen, Controllable
  <1>7. StaleSeen'
    BY DEF TypeOK, Agents, Kept, Unnamed, Meet, daemonRunning, StaleSeen, OneCommand, HasTarget,
       NoneLeft, OnlyChild, StillNamed, Controllable
  <1>8. Controllable'
    BY DEF TypeOK, Agents, Kept, Unnamed, Meet, daemonRunning, Controllable, OneCommand, HasTarget,
       NoneLeft, OnlyChild, StillNamed, StaleSeen
  <1>9. StopHitsAgent'
    BY DEF TypeOK, Agents, Kept, Unnamed, Meet, daemonRunning, StopHitsAgent, OneCommand, HasTarget,
       NoneLeft, OnlyChild, StillNamed, StaleSeen, Controllable
  <1> QED
    BY <1>1, <1>2, <1>3, <1>4, <1>5, <1>6, <1>7, <1>8, <1>9

LEMMA StepInv == Inv /\ [Next]_vars => Inv'
  <1> SUFFICES ASSUME Inv, [Next]_vars PROVE Inv'
    OBVIOUS
  <1>1. ASSUME NEW c \in Commands,
               \/ StartRefused(c) \/ StartChecked(c) \/ StartWrite(c)
               \/ StopRead(c) \/ StopKill(c) \/ StopDenied(c)
               \/ StopRemove(c) \/ Abort(c)
        PROVE  Inv'
    BY <1>1, StartRefusedInv, StartCheckedInv, StartWriteInv, StopReadInv,
       StopKillInv, StopDeniedInv, StopRemoveInv, AbortInv
  <1>2. ASSUME NEW c \in Commands, NEW p \in Pids, StartSpawn(c, p)
        PROVE  Inv'
    BY <1>2, StartSpawnInv
  <1>3. ASSUME NEW p \in Pids,
               \/ RunForeground(p) \/ OpenState(p) \/ End(p)
               \/ \E kind \in {"other", "foreign"} : OtherProcess(p, kind)
        PROVE  Inv'
    BY <1>3, RunForegroundInv, OpenStateInv, EndInv, OtherProcessInv
  <1>4. CASE UNCHANGED vars
    BY <1>4 DEF vars, file, cli, Inv, TypeOK, OneCommand, HasTarget, NoneLeft,
       OnlyChild, StillNamed, StaleSeen, Controllable, StopHitsAgent, Agents, Kept,
       Unnamed
  <1> QED
    BY <1>1, <1>2, <1>3, <1>4 DEF Next

-----------------------------------------------------------------------------
\* The process table, the PID file and the commands keep their types.
THEOREM TypeCorrect == Spec => []TypeOK
  <1>1. Inv => TypeOK
    BY DEF Inv
  <1> QED
    BY <1>1, InitInv, StepInv, PTL DEF Spec

\* Whatever becomes of the agents and their PIDs, and whatever other starts and
\* stops overlap or break off: an agent in the background whose own start met no
\* other command and wrote the PID file stays named by it until it is signalled.
THEOREM StaysControllable == Spec => []Controllable
  <1>1. Inv => Controllable
    BY DEF Inv
  <1> QED
    BY <1>1, InitInv, StepInv, PTL DEF Spec

\* stopDaemon signals a stranger only when commands overlapped or the PID in
\* the file was given to another process.
THEOREM StopIsSafe == Spec => []StopHitsAgent
  <1>1. Inv => StopHitsAgent
    BY DEF Inv
  <1> QED
    BY <1>1, InitInv, StepInv, PTL DEF Spec
=============================================================================
