---------------------------- MODULE DeployProofs ----------------------------
(***************************************************************************)
(* Proofs about Deploy for every set of images, whatever revision each one *)
(* contains and whichever of them start.  Inv relates the processes: what  *)
(* the workflow waits for (JobScript), what the container has migrated     *)
(* (DbOK), what a health check that no other script disturbs speaks of     *)
(* (CheckOK), and where an undisturbed release is between the tag and the  *)
(* container (OnlineOK).                                                   *)
(***************************************************************************)
EXTENDS Deploy, TLAPS

JobScript ==
    /\ job.pc = "ssh" => /\ script[job.shell] # NoScript
                         /\ job.target = script[job.shell].image
    /\ \A sh \in Shells : script[sh].pc \in {"rollback", "recheck"}
                            => script[sh].prev \in Images

DbOK ==
    /\ db.schema = SchemaAt[db.rev]
    /\ running.state \in {"migrated", "serving"} => db.rev = Rev[running.image]
    /\ NoClashPast0003

CheckOK ==
    /\ \A sh, o \in Shells : script[sh] # NoScript /\ script[o] # NoScript /\ sh # o
                              => script[sh].overlapped
    /\ \A sh \in Shells : script[sh].pc = "health" /\ ~script[sh].overlapped
                            => running.image = script[sh].image
    /\ job.pc = "tag" /\ ~job.overlapped => job.target \in healthy
    /\ ~mixed /\ tag # None => tag \in healthy

(* Where the one script of an undisturbed release is; prev, the image to   *)
(* return to, is the tagged one.                                           *)
Placed(sh) ==
    /\ Awaited(sh)
    /\ script[sh].pc \in {"up", "recheck"} => running.image = script[sh].prev
    /\ script[sh].pc = "health" => running.image = script[sh].image
    /\ tag # None => script[sh].prev = tag

OnlineOK ==
    ~disturbed =>
        /\ \A sh \in Shells : script[sh] # NoScript => Placed(sh)
        /\ job.pc = "tag" => running.image = job.target
        /\ job = NoJob /\ tag # None => running.image = tag

Inv == TypeOK /\ JobScript /\ DbOK /\ CheckOK /\ OnlineOK

-----------------------------------------------------------------------------
(* The schemas grow along the chain, and the last one has all tables. *)
LEMMA Schemas ==
    /\ SchemaAt[0] = {}
    /\ \A r \in 0 .. Head : SchemaAt[r] \subseteq SchemaAt[Head]
    /\ Tables \subseteq SchemaAt[Head]
<1> DEFINE s1 == upgrade_0001({})
           s2 == upgrade_0002(s1)
           s3 == upgrade_0003(s2)
           s4 == upgrade_0004(s3)
           s5 == upgrade_0005(s4)
<1>1. SchemaAt = [r \in 0 .. Head |-> CASE r = 0 -> {} [] r = 1 -> s1 [] r = 2 -> s2
                               [] r = 3 -> s3 [] r = 4 -> s4 [] r = 5 -> s5]
  BY DEF SchemaAt
<1>2. s1 \subseteq s2 /\ s2 \subseteq s3 /\ s3 \subseteq s4 /\ s4 \subseteq s5
  BY DEF upgrade_0002, upgrade_0003, upgrade_0004, upgrade_0005
<1>3. Tables \subseteq s5
  BY DEF Tables, upgrade_0001, upgrade_0002, upgrade_0003, upgrade_0004, upgrade_0005
<1> HIDE DEF s1, s2, s3, s4, s5
<1>4. SchemaAt[0] = {} /\ SchemaAt[1] = s1 /\ SchemaAt[2] = s2 /\ SchemaAt[3] = s3
        /\ SchemaAt[4] = s4 /\ SchemaAt[5] = s5
  BY <1>1 DEF Head
<1>5. \A r \in 0 .. Head : r \in {0, 1, 2, 3, 4, 5}
  BY DEF Head
<1>6. ASSUME NEW r \in 0 .. Head PROVE SchemaAt[r] \subseteq SchemaAt[5]
  <2>1. r = 0 \/ r = 1 \/ r = 2 \/ r = 3 \/ r = 4 \/ r = 5
    BY <1>5
  <2> QED BY <1>2, <1>4, <2>1
<1> QED BY <1>3, <1>4, <1>6 DEF Head

(* The invariant holds before the first release.                           *)
LEMMA InitInv == Init => Inv
<1> SUFFICES ASSUME Init PROVE Inv
  OBVIOUS
<1>1. TypeOK
  <2>1. /\ tag = None /\ running = NoContainer /\ job = NoJob /\ healthy = {}
        /\ disturbed = FALSE /\ mixed = FALSE
        /\ script = [sh \in Shells |-> NoScript]
        /\ db = [rev |-> 0, schema |-> {}, clash |-> FALSE] /\ 0 \in 0 .. Head
    BY DEF Init, Head
  <2>2. db \in [rev : 0 .. Head, schema : SUBSET SchemaAt[Head], clash : BOOLEAN]
    BY <2>1
  <2> QED BY <2>1, <2>2 DEF TypeOK
<1>2. JobScript
  BY DEF Init, JobScript, NoJob, NoScript
<1>3. DbOK
  BY Schemas DEF Init, DbOK, NoContainer, NoClashPast0003
<1>4. CheckOK
  BY DEF Init, CheckOK, NoJob, NoScript
<1>5. OnlineOK
  BY DEF Init, OnlineOK, NoJob, NoScript
<1> QED BY <1>1, <1>2, <1>3, <1>4, <1>5 DEF Inv

-----------------------------------------------------------------------------
(* What the container does on its own: its image stays. *)
LEMMA ContainerInv ==
    ASSUME Inv, Container \/ Die \/ RegisterBothCases \/ ResolveClash
    PROVE  Inv'
<1>1. UNCHANGED <<tag, job, script, healthy, disturbed, mixed>>
  BY DEF Container, Migrate, StartUvicorn, Restart, Die, RegisterBothCases,
         ResolveClash, history
<1>2. /\ running'.image = running.image
      /\ running' \in [image : Images,
                        state : ContainerStates]
                         \cup {NoContainer}
  BY DEF Container, Migrate, StartUvicorn, Restart, Die, RegisterBothCases,
         ResolveClash, Inv, TypeOK, NoContainer, ContainerStates
<1>3. /\ db'.rev \in 0 .. Head /\ db'.schema = SchemaAt[db'.rev]
      /\ db'.clash \in BOOLEAN
      /\ running'.state \in {"migrated", "serving"} => db'.rev = Rev[running'.image]
      /\ db'.rev >= 3 => ~db'.clash
  <2>i. /\ db.rev \in 0 .. Head /\ db.schema = SchemaAt[db.rev] /\ db.clash \in BOOLEAN
        /\ running.state \in {"migrated", "serving"} => db.rev = Rev[running.image]
        /\ db.rev >= 3 => ~db.clash
    BY DEF Inv, TypeOK, DbOK, NoClashPast0003
  <2>1. CASE Migrate
    <3> DEFINE c == running.image
    <3>1. CASE Unknown(c) \/ Collides(c)
      BY <2>1, <2>i, <3>1 DEF Migrate, Inv, TypeOK, NoContainer
    <3>2. CASE ~Unknown(c) /\ ~Collides(c)
      <4>1. /\ running' = [running EXCEPT !.state = "migrated"]
            /\ db' = Migrated(c) /\ running.state = "starting"
        BY <2>1, <3>2 DEF Migrate
      <4>2. c \in Images /\ running'.image = c
        BY <4>1 DEF Inv, TypeOK, NoContainer
      <4>3. /\ Rev[c] \in 0 .. Head /\ Rev[c] \in Nat
            /\ Rev[c] >= db.rev /\ (db.clash /\ db.rev < 3 => Rev[c] < 3)
        BY <2>i, <3>2, <4>2, ImagesAssumption DEF Unknown, Collides, Head
      <4>4. db' = [db EXCEPT !.rev = Rev[c],
                     !.schema = IF Rev[c] = db.rev THEN db.schema ELSE SchemaAt[Rev[c]]]
        BY <4>1 DEF Migrated
      <4>5. db \in [rev : 0 .. Head, schema : SUBSET SchemaAt[Head], clash : BOOLEAN]
        BY DEF Inv, TypeOK
      <4>6. /\ db'.rev = Rev[c] /\ db'.schema = SchemaAt[Rev[c]] /\ db'.clash = db.clash
        BY <2>i, <4>4, <4>5
      <4> QED BY <2>i, <4>2, <4>3, <4>6 DEF Head
    <3> QED BY <3>1, <3>2
  <2>2. CASE StartUvicorn \/ Restart \/ Die
    BY <2>2, <2>i DEF StartUvicorn, Restart, Die, Inv, TypeOK, NoContainer
  <2>3. CASE RegisterBothCases
    <3>1. db.rev < 3
      BY <2>3, <2>i, ImagesAssumption DEF RegisterBothCases
    <3>2. /\ UNCHANGED running /\ db' = [db EXCEPT !.clash = TRUE]
      BY <2>3 DEF RegisterBothCases
    <3>3. /\ db'.rev = db.rev /\ db'.schema = db.schema /\ db'.clash = TRUE
      BY <3>2 DEF Inv, TypeOK
    <3> QED BY <2>i, <3>1, <3>2, <3>3 DEF Head
  <2>4. CASE ResolveClash
    BY <2>4, <2>i DEF ResolveClash, Inv, TypeOK
  <2> QED BY <2>1, <2>2, <2>3, <2>4 DEF Container
<1>4. TypeOK'
  <2>1. /\ db \in [rev : 0 .. Head, schema : SUBSET SchemaAt[Head], clash : BOOLEAN]
        /\ db'.rev \in 0 .. Head /\ db'.clash \in BOOLEAN
        /\ db'.schema \in SUBSET SchemaAt[Head]
    BY <1>3, Schemas DEF Inv, TypeOK
  <2>2. \/ db' = db
        \/ \E c : db' = [db EXCEPT !.rev = Rev[c],
                     !.schema = IF Rev[c] = db.rev THEN db.schema ELSE SchemaAt[Rev[c]]]
        \/ \E b : db' = [db EXCEPT !.clash = b]
    BY DEF Container, Migrate, Migrated, StartUvicorn, Restart, Die, RegisterBothCases,
           ResolveClash
  <2>3. db' \in [rev : 0 .. Head, schema : SUBSET SchemaAt[Head], clash : BOOLEAN]
    BY <2>1, <2>2
  <2> QED BY <1>1, <1>2, <2>3 DEF Inv, TypeOK
<1>5. JobScript' /\ CheckOK' /\ OnlineOK'
  <2>1. /\ tag' = tag /\ job' = job /\ script' = script /\ healthy' = healthy
        /\ disturbed' = disturbed /\ mixed' = mixed /\ running'.image = running.image
    BY <1>1, <1>2
  <2>2. JobScript /\ CheckOK /\ OnlineOK
    BY DEF Inv
  <2>3. JobScript'
    BY <2>1, <2>2 DEF JobScript
  <2>4. CheckOK'
    BY <2>1, <2>2 DEF CheckOK
  <2>5. OnlineOK'
    BY <2>1, <2>2 DEF OnlineOK, Placed, Awaited
  <2> QED BY <2>3, <2>4, <2>5
<1>6. DbOK'
  BY <1>3 DEF DbOK, NoClashPast0003
<1> QED BY <1>4, <1>5, <1>6 DEF Inv

-----------------------------------------------------------------------------
(* The workflow's own steps. *)
ScriptType == [pc : {"up", "health", "rollback", "recheck"}, image : Images,
               prev : Images \cup {None}, overlapped : BOOLEAN]
JobType == [pc : {"ssh", "tag"}, target : Images, shell : Shells, overlapped : BOOLEAN]

(* What the invariant says of types, spelled out.                          *)
LEMMA Types ==
    ASSUME Inv
    PROVE  /\ \A sh \in Shells : script[sh] \in ScriptType \cup {NoScript}
           /\ \A sh \in Shells : script[sh] # NoScript <=> script[sh].pc # "idle"
           /\ job \in JobType \cup {NoJob}
           /\ NoScript.pc = "idle" /\ NoJob.pc = "idle"
           /\ running.image \in Images \cup {None}
<1>1. /\ \A sh \in Shells : script[sh] \in ScriptType \cup {NoScript}
      /\ job \in JobType \cup {NoJob}
      /\ NoScript.pc = "idle" /\ NoJob.pc = "idle"
      /\ running.image \in Images \cup {None}
  BY DEF Inv, TypeOK, ScriptType, JobType, NoScript, NoJob, NoContainer
<1>2. \A sh \in Shells : script[sh] # NoScript <=> script[sh].pc # "idle"
  BY <1>1 DEF ScriptType
<1> QED BY <1>1, <1>2

(* A new script: of the other entries only the history changes. *)
LEMMA Started ==
    ASSUME Inv, NEW sh \in Shells, NEW c \in Images, StartScript(sh, c)
    PROVE  /\ script' \in [Shells -> ScriptType \cup {NoScript}]
           /\ script[sh] = NoScript
           /\ script'[sh].pc = "up" /\ script'[sh].image = c
           /\ script'[sh].prev = running.image /\ script'[sh] # NoScript
           /\ \A o \in Shells : o # sh =>
                 /\ script'[o].pc = script[o].pc /\ script'[o].image = script[o].image
                 /\ script'[o].prev = script[o].prev
                 /\ script'[o] # NoScript <=> script[o] # NoScript
                 /\ script'[o] # NoScript => script'[o].overlapped /\ script'[sh].overlapped
<1> DEFINE others == {o \in Shells : script[o] # NoScript}
           new == [pc |-> "up", image |-> c, prev |-> running.image,
                   overlapped |-> others # {}]
<1>1. /\ script[sh] = NoScript
      /\ script' = [o \in Shells |-> IF o = sh THEN new
                     ELSE IF o \in others THEN [script[o] EXCEPT !.overlapped = TRUE]
                     ELSE NoScript]
  BY DEF StartScript
<1>2. new \in ScriptType /\ new.pc = "up" /\ new # NoScript
  <2>1. new \in ScriptType
    BY Types DEF ScriptType
  <2> QED BY <2>1 DEF NoScript
<1>3. ASSUME NEW o \in Shells, o # sh
      PROVE  /\ script'[o] \in ScriptType \cup {NoScript}
             /\ script'[o].pc = script[o].pc /\ script'[o].image = script[o].image
             /\ script'[o].prev = script[o].prev
             /\ script'[o] # NoScript <=> script[o] # NoScript
             /\ script'[o] # NoScript => script'[o].overlapped /\ script'[sh].overlapped
  <2>1. script'[o] = IF o \in others THEN [script[o] EXCEPT !.overlapped = TRUE]
                     ELSE NoScript
    BY <1>1, <1>3
  <2>2. CASE script[o] = NoScript
    <3>1. script'[o] = NoScript
      BY <2>1, <2>2
    <3> QED BY <2>2, <3>1
  <2>3. CASE script[o] # NoScript
    <3>1. script[o] \in ScriptType /\ script[o].pc # "idle" /\ o \in others
      BY <2>3, Types
    <3>2. /\ script'[o] \in ScriptType /\ script'[o].pc = script[o].pc
          /\ script'[o].image = script[o].image /\ script'[o].prev = script[o].prev
          /\ script'[o].overlapped
      BY <2>1, <3>1 DEF ScriptType
    <3>3. script'[sh].overlapped
      BY <1>1, <3>1
    <3>4. script'[o] # NoScript
      BY <3>1, <3>2, Types
    <3> QED BY <2>3, <3>2, <3>3, <3>4
  <2> QED BY <2>2, <2>3
<1>4. script' \in [Shells -> ScriptType \cup {NoScript}]
  BY <1>1, <1>2, <1>3
<1>5. script'[sh] = new
  BY <1>1
<1> QED BY <1>1, <1>2, <1>3, <1>4, <1>5

(* A workflow run that starts the script keeps the invariant.              *)
LEMMA DeployWorkflowInv ==
    ASSUME Inv, NEW sh \in Shells, NEW c \in Images, NEW force \in BOOLEAN,
           DeployWorkflow(sh, c, force)
    PROVE  Inv'
<1>1. /\ job = NoJob
      /\ job' = [pc |-> "ssh", target |-> c, shell |-> sh, overlapped |-> FALSE]
      /\ StartScript(sh, c)
      /\ UNCHANGED <<tag, running, db, healthy, disturbed, mixed>>
  BY DEF DeployWorkflow, history
<1>2. /\ script' \in [Shells -> ScriptType \cup {NoScript}]
      /\ script[sh] = NoScript
      /\ script'[sh].pc = "up" /\ script'[sh].image = c
      /\ script'[sh].prev = running.image /\ script'[sh] # NoScript
      /\ \A o \in Shells : o # sh =>
            /\ script'[o].pc = script[o].pc /\ script'[o].image = script[o].image
            /\ script'[o].prev = script[o].prev
            /\ script'[o] # NoScript <=> script[o] # NoScript
            /\ script'[o] # NoScript => script'[o].overlapped /\ script'[sh].overlapped
  BY <1>1, Started
<1>3. TypeOK'
  BY <1>1, <1>2 DEF Inv, TypeOK, ScriptType
<1>4. JobScript'
  BY <1>1, <1>2, Types DEF Inv, JobScript
<1>5. DbOK'
  BY <1>1 DEF Inv, DbOK, NoClashPast0003
<1>6. CheckOK'
  BY <1>1, <1>2, Types DEF Inv, CheckOK
<1>7. OnlineOK'
  <2>1. ASSUME ~disturbed'
        PROVE  /\ \A o \in Shells : script[o] = NoScript
               /\ tag # None => running.image = tag
    BY <1>1, <2>1, Types DEF Inv, OnlineOK, Placed, Awaited
  <2> QED BY <1>1, <1>2, <2>1, Types DEF OnlineOK, Placed, Awaited, NoJob
<1> QED BY <1>3, <1>4, <1>5, <1>6, <1>7 DEF Inv

(* So does a person who starts it.                                         *)
LEMMA ManualDeployInv ==
    ASSUME Inv, NEW sh \in Shells, NEW c \in Manual, ManualDeploy(sh, c)
    PROVE  Inv'
<1>1. /\ c \in Images /\ StartScript(sh, c) /\ disturbed' = TRUE
      /\ UNCHANGED <<tag, running, db, job, healthy, mixed>>
  BY ImagesAssumption DEF ManualDeploy
<1>2. /\ script' \in [Shells -> ScriptType \cup {NoScript}]
      /\ script[sh] = NoScript
      /\ script'[sh].pc = "up" /\ script'[sh].image = c
      /\ script'[sh].prev = running.image /\ script'[sh] # NoScript
      /\ \A o \in Shells : o # sh =>
            /\ script'[o].pc = script[o].pc /\ script'[o].image = script[o].image
            /\ script'[o].prev = script[o].prev
            /\ script'[o] # NoScript <=> script[o] # NoScript
            /\ script'[o] # NoScript => script'[o].overlapped /\ script'[sh].overlapped
  BY <1>1, Started
<1>3. TypeOK'
  BY <1>1, <1>2 DEF Inv, TypeOK, ScriptType
<1>4. JobScript'
  <2>1. job.pc = "ssh" => job.shell \in Shells /\ job.shell # sh
    BY <1>2, Types DEF Inv, JobScript, JobType
  <2> QED BY <1>1, <1>2, <2>1, Types DEF Inv, JobScript
<1>5. DbOK'
  BY <1>1 DEF Inv, DbOK, NoClashPast0003
<1>6. CheckOK'
  BY <1>1, <1>2, Types DEF Inv, CheckOK
<1>7. OnlineOK'
  BY <1>1 DEF OnlineOK
<1> QED BY <1>3, <1>4, <1>5, <1>6, <1>7 DEF Inv

(* Moving the tag keeps it.                                                *)
LEMMA MarkAsDeployedInv == Inv /\ MarkAsDeployed => Inv'
<1> SUFFICES ASSUME Inv, MarkAsDeployed PROVE Inv'
  OBVIOUS
<1>1. /\ job.pc = "tag" /\ tag' = job.target /\ job' = NoJob /\ mixed' = job.overlapped
      /\ UNCHANGED <<running, db, script, healthy, disturbed>>
  BY DEF MarkAsDeployed
<1>2. job \in JobType /\ job.target \in Images /\ job.overlapped \in BOOLEAN
  BY <1>1, Types DEF JobType
<1>3. TypeOK'
  BY <1>1, <1>2 DEF Inv, TypeOK
<1>4. JobScript'
  BY <1>1, <1>2, Types DEF Inv, JobScript
<1>5. DbOK'
  BY <1>1 DEF Inv, DbOK, NoClashPast0003
<1>6. CheckOK'
  BY <1>1, <1>2, Types DEF Inv, CheckOK
<1>7. OnlineOK'
  BY <1>1, <1>2, Types DEF Inv, OnlineOK, Placed, Awaited, NoJob
<1> QED BY <1>3, <1>4, <1>5, <1>6, <1>7 DEF Inv

(* A workflow run that fails keeps it.                                     *)
LEMMA JobFailsInv == Inv /\ JobFails => Inv'
<1> SUFFICES ASSUME Inv, JobFails PROVE Inv'
  OBVIOUS
<1>1. /\ job' = NoJob /\ disturbed' = TRUE
      /\ UNCHANGED <<tag, running, db, script, healthy, mixed>>
  BY DEF JobFails
<1>2. TypeOK'
  BY <1>1 DEF Inv, TypeOK
<1>3. JobScript'
  BY <1>1, Types DEF Inv, JobScript
<1>4. DbOK'
  BY <1>1 DEF Inv, DbOK, NoClashPast0003
<1>5. CheckOK'
  BY <1>1, Types DEF Inv, CheckOK
<1>6. OnlineOK'
  BY <1>1 DEF OnlineOK
<1> QED BY <1>2, <1>3, <1>4, <1>5, <1>6 DEF Inv

-----------------------------------------------------------------------------
(* The steps of a script.  Exit removes it and answers a workflow that     *)
(* waits for it; whatever it answers, JobScript holds afterwards.          *)
LEMMA Exited ==
    ASSUME Inv, NEW sh \in Shells, script[sh] # NoScript, NEW code, Exit(sh, code)
    PROVE  /\ script' \in [Shells -> ScriptType \cup {NoScript}]
           /\ script'[sh] = NoScript
           /\ \A o \in Shells : o # sh => script'[o] = script[o]
           /\ job' \in JobType \cup {NoJob}
           /\ IF Awaited(sh)
              THEN /\ job.target = script[sh].image
                   /\ code = 0 => /\ job'.pc = "tag" /\ job' # NoJob
                                  /\ job'.target = script[sh].image
                                  /\ job'.overlapped = script[sh].overlapped
                   /\ code # 0 => job' = NoJob
              ELSE job' = job
           /\ JobScript'
<1>1. /\ script \in [Shells -> ScriptType \cup {NoScript}] /\ JobScript
      /\ job \in JobType \cup {NoJob} /\ NoJob.pc = "idle"
  BY Types DEF Inv, TypeOK, ScriptType
<1>2. /\ script' = [script EXCEPT ![sh] = NoScript]
      /\ job' = IF ~Awaited(sh) THEN job
                ELSE IF code = 0 THEN [job EXCEPT !.pc = "tag",
                                        !.overlapped = script[sh].overlapped]
                ELSE NoJob
  BY DEF Exit
<1>3. /\ script' \in [Shells -> ScriptType \cup {NoScript}]
      /\ script'[sh] = NoScript /\ \A o \in Shells : o # sh => script'[o] = script[o]
  BY <1>1, <1>2
<1>4. \A o \in Shells : script'[o].pc \in {"rollback", "recheck"}
                            => script'[o].prev \in Images
  BY <1>1, <1>3, Types DEF JobScript
<1>5. CASE Awaited(sh)
  <2>1. /\ job.pc = "ssh" /\ job.target = script[sh].image /\ job \in JobType
        /\ script[sh].overlapped \in BOOLEAN
    BY <1>1, <1>5, Types DEF JobScript, Awaited, ScriptType
  <2>2. CASE code = 0
    <3>1. job' = [job EXCEPT !.pc = "tag", !.overlapped = script[sh].overlapped]
      BY <1>2, <1>5, <2>2
    <3>2. /\ job' \in JobType /\ job'.pc = "tag" /\ job'.target = script[sh].image
          /\ job'.overlapped = script[sh].overlapped
      BY <2>1, <3>1 DEF JobType
    <3>3. JobScript' /\ job' # NoJob
      BY <1>1, <1>4, <3>2 DEF JobScript
    <3> QED BY <1>3, <1>5, <2>1, <2>2, <3>2, <3>3
  <2>3. CASE code # 0
    <3>1. job' = NoJob
      BY <1>2, <1>5, <2>3
    <3>2. JobScript'
      BY <1>1, <1>4, <3>1 DEF JobScript
    <3> QED BY <1>3, <1>5, <2>1, <2>3, <3>1, <3>2
  <2> QED BY <2>2, <2>3
<1>6. CASE ~Awaited(sh)
  <2>1. job' = job
    BY <1>2, <1>6
  <2>2. job.pc = "ssh" => job.shell \in Shells /\ job.shell # sh
    BY <1>1, <1>6 DEF Awaited, JobType
  <2>3. JobScript'
    BY <1>1, <1>3, <1>4, <2>1, <2>2 DEF JobScript
  <2> QED BY <1>1, <1>3, <1>6, <2>1, <2>3
<1> QED BY <1>5, <1>6

(* Goto keeps everything of a script but its place. *)
LEMMA Went ==
    ASSUME Inv, NEW sh \in Shells, script[sh] # NoScript,
           NEW pc \in {"up", "health", "rollback", "recheck"},
           Goto(sh, pc), pc \in {"rollback", "recheck"} => script[sh].prev \in Images
    PROVE  /\ script' \in [Shells -> ScriptType \cup {NoScript}]
           /\ script'[sh] = [script[sh] EXCEPT !.pc = pc] /\ script'[sh].pc = pc
           /\ script'[sh].image = script[sh].image /\ script'[sh].prev = script[sh].prev
           /\ script'[sh].overlapped = script[sh].overlapped /\ script'[sh] # NoScript
           /\ \A o \in Shells : o # sh => script'[o] = script[o]
           /\ job' = job
           /\ JobScript'
<1>1. /\ script \in [Shells -> ScriptType \cup {NoScript}] /\ JobScript
      /\ script[sh] \in ScriptType
  BY Types DEF Inv, TypeOK, ScriptType
<1>2. /\ script' = [script EXCEPT ![sh] = [script[sh] EXCEPT !.pc = pc]] /\ job' = job
  BY DEF Goto
<1>3. /\ [script[sh] EXCEPT !.pc = pc] \in ScriptType
      /\ [script[sh] EXCEPT !.pc = pc].pc = pc
      /\ [script[sh] EXCEPT !.pc = pc].image = script[sh].image
      /\ [script[sh] EXCEPT !.pc = pc].prev = script[sh].prev
      /\ [script[sh] EXCEPT !.pc = pc].overlapped = script[sh].overlapped
  BY <1>1 DEF ScriptType
<1>4. /\ script'[sh] = [script[sh] EXCEPT !.pc = pc]
      /\ \A o \in Shells : o # sh => script'[o] = script[o]
      /\ script' \in [Shells -> ScriptType \cup {NoScript}]
  BY <1>1, <1>2, <1>3
<1>5. script'[sh] # NoScript
  BY <1>3, <1>4, Types
<1>6. JobScript'
  BY <1>1, <1>2, <1>3, <1>4, <1>5 DEF JobScript
<1> QED BY <1>2, <1>3, <1>4, <1>5, <1>6

(* A pull that fails keeps it.                                             *)
LEMMA PullFailsInv ==
    ASSUME Inv, NEW sh \in Shells, PullFails(sh)
    PROVE  Inv'
<1>1. /\ script[sh].pc = "up" /\ script[sh] # NoScript /\ Exit(sh, 1) /\ 1 # 0
      /\ UNCHANGED <<tag, running, db, healthy, disturbed, mixed>>
  BY Types DEF PullFails, At, history
<1>2. /\ script' \in [Shells -> ScriptType \cup {NoScript}]
      /\ script'[sh] = NoScript
      /\ \A o \in Shells : o # sh => script'[o] = script[o]
      /\ job' \in JobType \cup {NoJob}
      /\ job' = IF Awaited(sh) THEN NoJob ELSE job
      /\ JobScript'
  BY <1>1, Exited
<1>3. TypeOK'
  BY <1>1, <1>2 DEF Inv, TypeOK, ScriptType, JobType
<1>4. DbOK'
  BY <1>1 DEF Inv, DbOK, NoClashPast0003
<1>5. CheckOK'
  BY <1>1, <1>2, Types DEF Inv, CheckOK
<1>6. OnlineOK'
  BY <1>1, <1>2, Types DEF Inv, OnlineOK, Placed, Awaited
<1> QED BY <1>2, <1>3, <1>4, <1>5, <1>6 DEF Inv

(* Replacing the container keeps it, forward or back.                      *)
LEMMA BringUpInv ==
    ASSUME Inv, NEW sh \in Shells, Up(sh) \/ Rollback(sh)
    PROVE  Inv'
<1>1. PICK c \in Images, next \in {"health", "recheck"} :
          /\ script[sh] # NoScript /\ bring_up(sh, c, next)
          /\ next = "health" => c = script[sh].image
          /\ next = "recheck" => c = script[sh].prev
  <2>1. CASE Up(sh)
    <3>1. script[sh] \in ScriptType /\ script[sh] # NoScript
      BY <2>1, Types DEF Up, At
    <3>2. script[sh].image \in Images
      BY <3>1 DEF ScriptType
    <3> QED BY <2>1, <3>1, <3>2 DEF Up
  <2>2. CASE Rollback(sh)
    <3>1. script[sh].prev \in Images /\ script[sh] # NoScript
      BY <2>2, Types DEF Rollback, At, Inv, JobScript
    <3> QED BY <2>2, <3>1 DEF Rollback
  <2> QED BY <2>1, <2>2
<1>2. UNCHANGED <<tag, db, healthy, mixed>>
  BY <1>1 DEF bring_up
<1>3. CASE /\ \/ running.image = c /\ UNCHANGED running
              \/ running' = Starting(c)
           /\ Goto(sh, next) /\ UNCHANGED disturbed
  <2>1. /\ running'.image = c
        /\ running' \in [image : Images, state : ContainerStates]
                           \cup {NoContainer}
        /\ running'.state \in {"migrated", "serving"} => running' = running
    BY <1>3 DEF Inv, TypeOK, Starting, ContainerStates, NoContainer
  <2>2. next = "recheck" => script[sh].prev \in Images
    BY <1>1
  <2>3. /\ script' \in [Shells -> ScriptType \cup {NoScript}]
        /\ script'[sh].pc = next
        /\ script'[sh].image = script[sh].image /\ script'[sh].prev = script[sh].prev
        /\ script'[sh].overlapped = script[sh].overlapped
        /\ script'[sh] # NoScript /\ script[sh].pc # "idle"
        /\ \A o \in Shells : o # sh => script'[o] = script[o]
        /\ job' = job /\ JobScript'
    BY <1>1, <1>3, <2>2, Went, Types DEF ScriptType
  <2>4. TypeOK'
    BY <1>2, <1>3, <2>1, <2>3 DEF Inv, TypeOK, ScriptType
  <2>5. DbOK'
    BY <1>2, <2>1 DEF Inv, DbOK, NoClashPast0003
  <2>6. CheckOK'
    <3>1. \A o \in Shells : o # sh /\ script'[o] # NoScript
                              => script'[o].overlapped /\ script'[sh].overlapped
      BY <1>1, <1>2, <2>3, Types DEF Inv, CheckOK
    <3> QED BY <1>1, <1>2, <2>1, <2>3, <3>1, Types DEF Inv, CheckOK
  <2>7. OnlineOK'
    <3>1. ASSUME ~disturbed'
          PROVE  Placed(sh) /\ \A o \in Shells : o # sh => script'[o] = NoScript
      BY <1>1, <1>3, <2>3, <3>1, Types DEF Inv, OnlineOK, Placed, Awaited, JobScript
    <3> QED BY <1>1, <1>2, <1>3, <2>1, <2>3, <3>1, Types DEF Inv, OnlineOK, Placed, Awaited
  <2> QED BY <2>3, <2>4, <2>5, <2>6, <2>7 DEF Inv
<1>4. CASE /\ running' \in {running, NoContainer, NotStarted(c)}
           /\ disturbed' = TRUE /\ Exit(sh, 1)
  <2>1. /\ script' \in [Shells -> ScriptType \cup {NoScript}]
        /\ script'[sh] = NoScript
        /\ \A o \in Shells : o # sh => script'[o] = script[o]
        /\ job' \in JobType \cup {NoJob}
        /\ job' = IF Awaited(sh) THEN NoJob ELSE job
        /\ JobScript'
    BY <1>1, <1>4, Exited
  <2>2. TypeOK'
    BY <1>2, <1>4, <2>1 DEF Inv, TypeOK, ScriptType, JobType, NotStarted, ContainerStates
  <2>3. DbOK'
    BY <1>2, <1>4 DEF Inv, DbOK, NoClashPast0003, NoContainer, NotStarted
  <2>4. CheckOK'
    <3>1. \A o \in Shells : script'[o] # NoScript => script'[o].overlapped
      BY <1>1, <1>2, <2>1, Types DEF Inv, CheckOK
    <3> QED BY <1>2, <2>1, <3>1, Types DEF Inv, CheckOK
  <2>5. OnlineOK'
    BY <1>4 DEF OnlineOK
  <2> QED BY <2>1, <2>2, <2>3, <2>4, <2>5 DEF Inv
<1> QED BY <1>1, <1>3, <1>4 DEF bring_up

(* A health check that passes keeps it.                                    *)
LEMMA HealthPassedInv ==
    ASSUME Inv, NEW sh \in Shells, HealthPassed(sh)
    PROVE  Inv'
<1> DEFINE code == IF script[sh].pc = "health" THEN 0 ELSE 1
<1>1. /\ script[sh] # NoScript /\ script[sh].pc \in {"health", "recheck"}
      /\ healthy' = healthy \cup {running.image} /\ Exit(sh, code)
      /\ UNCHANGED <<tag, running, db, disturbed, mixed>>
  BY Types DEF HealthPassed, Checking, At
<1>2. running.image \in Images
  BY DEF HealthPassed, Inv, TypeOK, NoContainer
<1>3. code = 0 <=> script[sh].pc = "health"
  OBVIOUS
<1> HIDE DEF code
<1>4. /\ script' \in [Shells -> ScriptType \cup {NoScript}]
      /\ script'[sh] = NoScript
      /\ \A o \in Shells : o # sh => script'[o] = script[o]
      /\ job' \in JobType \cup {NoJob}
      /\ IF Awaited(sh)
         THEN IF script[sh].pc = "health"
              THEN /\ job'.pc = "tag" /\ job'.target = script[sh].image /\ job' # NoJob
                   /\ job'.overlapped = script[sh].overlapped
              ELSE job' = NoJob
         ELSE job' = job
      /\ JobScript'
  BY <1>1, <1>3, Exited, Types
<1>5. TypeOK'
  BY <1>1, <1>2, <1>4 DEF Inv, TypeOK, ScriptType, JobType
<1>6. DbOK'
  BY <1>1 DEF Inv, DbOK, NoClashPast0003
<1>7. CheckOK'
  <2>1. \A o \in Shells : script'[o] # NoScript => script'[o].overlapped
    BY <1>1, <1>4, Types DEF Inv, CheckOK
  <2>2. /\ script[sh].pc = "health" /\ ~script[sh].overlapped
             => running.image = script[sh].image
        /\ job.pc = "tag" /\ ~job.overlapped => job.target \in healthy
        /\ ~mixed /\ tag # None => tag \in healthy
    BY DEF Inv, CheckOK
  <2>3. job'.pc = "tag" /\ ~job'.overlapped => job'.target \in healthy'
    BY <1>1, <1>4, <2>2, Types
  <2> QED BY <1>1, <1>4, <2>1, <2>2, <2>3, Types DEF CheckOK
<1>8. OnlineOK'
  <2>1. ASSUME ~disturbed'
        PROVE  Placed(sh) /\ \A o \in Shells : script'[o] = NoScript
    BY <1>1, <1>4, <2>1, Types DEF Inv, OnlineOK, Placed, Awaited
  <2> QED BY <1>1, <1>4, <2>1, Types DEF Inv, OnlineOK, Placed, Awaited
<1> QED BY <1>4, <1>5, <1>6, <1>7, <1>8 DEF Inv

(* One that fails keeps it.                                                *)
LEMMA HealthFailedInv ==
    ASSUME Inv, NEW sh \in Shells, HealthFailed(sh)
    PROVE  Inv'
<1>1. /\ script[sh] # NoScript /\ script[sh].pc \in {"health", "recheck"}
      /\ UNCHANGED <<tag, running, db, healthy, disturbed, mixed>>
  BY Types DEF HealthFailed, Checking, At, history
<1>2. DbOK'
  BY <1>1 DEF Inv, DbOK, NoClashPast0003
<1>3. CASE script[sh].pc = "health" /\ script[sh].prev # None
  <2>1. Goto(sh, "rollback")
    BY <1>3 DEF HealthFailed, At
  <2>2. script[sh].prev \in Images
    BY <1>1, <1>3, Types DEF ScriptType
  <2>3. /\ script' \in [Shells -> ScriptType \cup {NoScript}]
        /\ script'[sh].pc = "rollback"
        /\ script'[sh].image = script[sh].image /\ script'[sh].prev = script[sh].prev
        /\ script'[sh].overlapped = script[sh].overlapped /\ script'[sh] # NoScript
        /\ \A o \in Shells : o # sh => script'[o] = script[o]
        /\ job' = job /\ JobScript'
    BY <1>1, <2>1, <2>2, Went
  <2>4. TypeOK'
    BY <1>1, <2>3 DEF Inv, TypeOK, ScriptType
  <2>5. CheckOK'
    <3>1. \A o \in Shells : o # sh /\ script'[o] # NoScript
                              => script'[o].overlapped /\ script'[sh].overlapped
      BY <1>1, <2>3, Types DEF Inv, CheckOK
    <3> QED BY <1>1, <2>3, <3>1, Types DEF Inv, CheckOK
  <2>6. OnlineOK'
    <3>1. ASSUME ~disturbed'
          PROVE  Placed(sh) /\ \A o \in Shells : o # sh => script'[o] = NoScript
      BY <1>1, <2>3, <3>1, Types DEF Inv, OnlineOK, Placed, Awaited
    <3> QED BY <1>1, <2>3, <3>1, Types DEF Inv, OnlineOK, Placed, Awaited
  <2> QED BY <1>2, <2>3, <2>4, <2>5, <2>6 DEF Inv
<1>4. CASE ~(script[sh].pc = "health" /\ script[sh].prev # None)
  <2>1. Exit(sh, 1) /\ 1 # 0
    BY <1>4 DEF HealthFailed, At
  <2>2. /\ script' \in [Shells -> ScriptType \cup {NoScript}]
        /\ script'[sh] = NoScript
        /\ \A o \in Shells : o # sh => script'[o] = script[o]
        /\ job' \in JobType \cup {NoJob}
        /\ job' = IF Awaited(sh) THEN NoJob ELSE job
        /\ JobScript'
    BY <1>1, <2>1, Exited
  <2>3. TypeOK'
    BY <1>1, <2>2 DEF Inv, TypeOK, ScriptType, JobType
  <2>4. CheckOK'
    BY <1>1, <2>2, Types DEF Inv, CheckOK
  <2>5. OnlineOK'
    <3>1. ASSUME ~disturbed'
          PROVE  Placed(sh) /\ \A o \in Shells : script'[o] = NoScript
      BY <1>1, <2>2, <3>1, Types DEF Inv, OnlineOK, Placed, Awaited
    <3>2. ASSUME ~disturbed', tag # None
          PROVE  running.image = tag
      BY <1>1, <1>4, <3>1, <3>2 DEF Placed
    <3> QED BY <1>1, <2>2, <3>1, <3>2, Types DEF OnlineOK, Placed, Awaited
  <2> QED BY <1>2, <2>2, <2>3, <2>4, <2>5 DEF Inv
<1> QED BY <1>3, <1>4

(* A script that dies with its connection keeps it.                        *)
LEMMA ScriptDiesInv ==
    ASSUME Inv, NEW sh \in Shells, ScriptDies(sh)
    PROVE  Inv'
<1>1. /\ script[sh] # NoScript /\ ~Awaited(sh)
      /\ script' = [script EXCEPT ![sh] = NoScript]
      /\ UNCHANGED <<tag, running, db, job, healthy, disturbed, mixed>>
  BY DEF ScriptDies, history
<1>2. /\ script' \in [Shells -> ScriptType \cup {NoScript}]
      /\ script'[sh] = NoScript /\ \A o \in Shells : o # sh => script'[o] = script[o]
  BY <1>1 DEF Inv, TypeOK, ScriptType
<1>3. TypeOK'
  BY <1>1, <1>2 DEF Inv, TypeOK, ScriptType
<1>4. JobScript'
  <2>1. job.pc = "ssh" => job.shell \in Shells /\ job.shell # sh
    BY <1>1, Types DEF Awaited, JobType
  <2> QED BY <1>1, <1>2, <2>1, Types DEF Inv, JobScript
<1>5. DbOK'
  BY <1>1 DEF Inv, DbOK, NoClashPast0003
<1>6. CheckOK'
  BY <1>1, <1>2, Types DEF Inv, CheckOK
<1>7. OnlineOK'
  BY <1>1, <1>2, Types DEF Inv, OnlineOK, Placed, Awaited
<1> QED BY <1>3, <1>4, <1>5, <1>6, <1>7 DEF Inv

-----------------------------------------------------------------------------
(* Inv is inductive: every step of every process keeps it. *)
LEMMA StepInv == Inv /\ [Next]_vars => Inv'
<1> SUFFICES ASSUME Inv, [Next]_vars PROVE Inv'
  OBVIOUS
<1>1. CASE Container \/ Die \/ RegisterBothCases \/ ResolveClash
  BY <1>1, ContainerInv
<1>2. CASE MarkAsDeployed \/ JobFails
  BY <1>2, MarkAsDeployedInv, JobFailsInv
<1>3. CASE \E sh \in Shells : Script(sh) \/ ScriptDies(sh)
  BY <1>3, PullFailsInv, BringUpInv, HealthPassedInv, HealthFailedInv, ScriptDiesInv
     DEF Script
<1>4. CASE \E sh \in Shells, c \in Images, force \in BOOLEAN : DeployWorkflow(sh, c, force)
  BY <1>4, DeployWorkflowInv
<1>5. CASE \E sh \in Shells, c \in Manual : ManualDeploy(sh, c)
  BY <1>5, ManualDeployInv
<1>6. CASE UNCHANGED vars
  BY <1>6 DEF vars, Inv, TypeOK, JobScript, DbOK, NoClashPast0003, CheckOK, OnlineOK,
              Placed, Awaited
<1> QED BY <1>1, <1>2, <1>3, <1>4, <1>5, <1>6 DEF Next

(* The invariant holds for ever.                                           *)
LEMMA Invariant == Spec => []Inv
<1> QED BY InitInv, StepInv, PTL DEF Spec

(* The processes and the database keep their types: the workflow's run,    *)
(* the scripts, the container and the schema of deploy/ and alembic/.      *)
THEOREM DeployTypeCorrect == Spec => []TypeOK
<1>1. Inv => TypeOK
  BY DEF Inv
<1> QED BY <1>1, Invariant, PTL

(* An application that answers runs on the schema of its own revision: a   *)
(* container migrates before uvicorn starts (entrypoint.sh), and no other  *)
(* image migrates past it while it serves.                                 *)
THEOREM SchemaServed == Spec => []ServedSchema
<1>1. Inv => ServedSchema
  <2> SUFFICES ASSUME Inv, running.state = "serving"
               PROVE  /\ db.rev = Rev[running.image] /\ db.schema = SchemaAt[db.rev]
                      /\ Rev[running.image] = Head => Tables \subseteq db.schema
    BY DEF ServedSchema
  <2> QED BY Schemas DEF Inv, DbOK
<1> QED BY <1>1, Invariant, PTL

(* Past migration 0003 no two accounts differ only in case.                *)
THEOREM NoClash == Spec => []NoClashPast0003
<1>1. Inv => NoClashPast0003
  BY DEF Inv, DbOK
<1> QED BY <1>1, Invariant, PTL

(* The tag names an image that answered a health check, unless the release *)
(* that wrote it was overlapped by another script: MarkAsDeployed follows  *)
(* only the first check's success.                                         *)
THEOREM TagHealthy == Spec => []TagWasHealthy
<1>1. Inv => TagWasHealthy
  BY DEF Inv, CheckOK, TagWasHealthy
<1> QED BY <1>1, Invariant, PTL

(* After every undisturbed workflow run the container is the tagged image, *)
(* also after a rollback: the previous image the script saved is the one   *)
(* that carries the tag.                                                   *)
THEOREM TagOnline == Spec => []TagIsOnline
<1>1. Inv => TagIsOnline
  BY DEF Inv, OnlineOK, TagIsOnline
<1> QED BY <1>1, Invariant, PTL

=============================================================================
