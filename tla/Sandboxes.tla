------------------------------ MODULE Sandboxes -----------------------------
(***************************************************************************)
(* Sandboxes: DockerSandbox (sandbox/docker.py), the requests for it       *)
(* (api/v1/sandbox.py), and the tool of the agents                         *)
(* (tools/docker_sandbox_tool.py).  None of their methods suspends between *)
(* reading and writing the pool, so each is one step; what the Docker      *)
(* daemon does with a request is chosen freely.                            *)
(***************************************************************************)
EXTENDS FiniteSets

CONSTANT SbId  \* what uuid4 returns, one after the other

VARIABLES
  sbPool,      \* the keys of _sandboxes
  sbStatus,    \* the status of each Sandbox that was made
  sbValidator, \* the keys of _path_validator
  sbDir,       \* the directories under /tmp/nexusmind-workspaces
  sbContainer, \* the containers, as the Docker daemon has them
  sbLost       \* the ids whose allocation raised, or that an earlier process had

sbVars == <<sbPool, sbStatus, sbValidator, sbDir, sbContainer, sbLost>>

SbInit ==
  /\ sbPool = {} /\ sbValidator = {} /\ sbDir = {}
  /\ sbStatus = [i \in SbId |-> "none"]
  /\ sbContainer = [i \in SbId |-> "none"]
  /\ sbLost = {}

SbUnused == {i \in SbId : sbContainer[i] = "none" /\ i \notin sbDir}

SbRunning(i) == sbContainer[i] \in {"running", "paused"}

\* allocate makes the directory first.  When the image is not found it calls itself
\* with another image, which may not be found either, and with a new id: the
\* directories of all those attempts, tried, stay.  The call of the daemon may also
\* raise: it refused, or the container was created and does not start, or it runs and
\* the answer did not come.  Then nothing is entered into the pool.
SbAllocate(tried, i, end, raised) ==
  /\ i \in SbUnused /\ tried \subseteq SbUnused \ {i}
  /\ end # "running" => raised
  /\ sbDir' = sbDir \cup tried \cup {i}
  /\ sbContainer' = [sbContainer EXCEPT ![i] = end]
  /\ IF raised
       THEN /\ sbLost' = sbLost \cup {i}
            /\ UNCHANGED <<sbPool, sbStatus>>
       ELSE /\ sbPool' = sbPool \cup {i}
            /\ sbStatus' = [sbStatus EXCEPT ![i] = "allocated"]
            /\ UNCHANGED sbLost
  /\ UNCHANGED sbValidator

\* The tool of the agents does the same, and then takes the Sandbox for a pair, which
\* raises: it answers with the error, and enters no session for what it allocated.  So
\* its other operations find no session, and do nothing.
SbToolAllocate(i) == SbAllocate({}, i, "running", FALSE)

\* get_status: a container that is paused leaves the status as it was.
SbStatusOf(i) ==
  CASE sbContainer[i] = "running" -> "running"
    [] sbContainer[i] = "exited" -> "stopped"
    [] sbContainer[i] = "gone" -> "error"
    [] OTHER -> sbStatus[i]

\* Every request that uses a sandbox asks for its status first, and goes on whatever
\* that is.  A validator for paths is made when there is none.
SbAsk(i, paths) ==
  /\ i \in sbPool
  /\ sbStatus' = [sbStatus EXCEPT ![i] = SbStatusOf(i)]
  /\ sbValidator' = IF paths THEN sbValidator \cup {i} ELSE sbValidator
  /\ UNCHANGED <<sbPool, sbDir, sbContainer, sbLost>>

SbStatusRequest(i) == SbAsk(i, FALSE)

\* The requests to execute and for the terminal: execute_with_timeout, which asks no
\* validator for the directory it runs in.
SbExecute(i) == SbAsk(i, FALSE)

SbInstall(i) == SbAsk(i, FALSE)

\* Those about files make the validator before they look at the path, or at the container.
SbWriteFile(i) == SbAsk(i, TRUE)
SbReadFile(i) == SbAsk(i, TRUE)
SbListFiles(i) == SbAsk(i, TRUE)

SbPause(i) ==
  /\ i \in sbPool /\ sbContainer[i] = "running"
  /\ sbContainer' = [sbContainer EXCEPT ![i] = "paused"]
  /\ UNCHANGED <<sbPool, sbStatus, sbValidator, sbDir, sbLost>>

SbUnpause(i) ==
  /\ i \in sbPool /\ sbContainer[i] = "paused"
  /\ sbContainer' = [sbContainer EXCEPT ![i] = "running"]
  /\ UNCHANGED <<sbPool, sbStatus, sbValidator, sbDir, sbLost>>

\* The container ends, or is removed by somebody else.
SbEnds(i, end) ==
  /\ SbRunning(i) \/ (sbContainer[i] = "exited" /\ end = "gone")
  /\ sbContainer' = [sbContainer EXCEPT ![i] = end]
  /\ UNCHANGED <<sbPool, sbStatus, sbValidator, sbDir, sbLost>>

\* release: the entry goes when the container is removed, and stays when it is not
\* found, when stopping it failed twice, or when removing it failed after it was
\* stopped, which ends it all the same.  The request takes the pair that release
\* returns for true, and answers in every case that the sandbox is released.
SbForget(i, dirs) ==
  /\ sbPool' = sbPool \ {i}
  /\ sbValidator' = sbValidator \ {i}
  /\ sbDir' = dirs
  /\ UNCHANGED <<sbStatus, sbLost>>

SbRelease(i, rmtree) ==
  /\ i \in sbPool /\ sbContainer[i] # "gone"
  /\ SbForget(i, IF rmtree THEN sbDir \ {i} ELSE sbDir)
  /\ sbContainer' = [sbContainer EXCEPT ![i] = "gone"]

SbReleaseFails(i) ==
  /\ i \in sbPool /\ SbRunning(i)
  /\ sbContainer' = [sbContainer EXCEPT ![i] = "exited"]
  /\ UNCHANGED <<sbPool, sbStatus, sbValidator, sbDir, sbLost>>

\* The process is started again: the pool was in its memory, and nothing asks the
\* daemon what an earlier process left.
SbRestart ==
  /\ sbPool' = {} /\ sbValidator' = {}
  /\ sbStatus' = [i \in SbId |-> "none"]
  /\ sbLost' = sbLost \cup sbPool
  /\ UNCHANGED <<sbDir, sbContainer>>

SbNext ==
  \/ \E i \in SbId, tried \in SUBSET SbId, b \in BOOLEAN :
       \E end \in {"running", "created", "none"} : SbAllocate(tried, i, end, b)
  \/ SbRestart
  \/ \E i \in SbId :
       \/ SbToolAllocate(i) \/ SbPause(i) \/ SbUnpause(i)
       \/ SbStatusRequest(i) \/ SbExecute(i) \/ SbInstall(i)
       \/ SbWriteFile(i) \/ SbReadFile(i) \/ SbListFiles(i)
       \/ \E end \in {"exited", "gone"} : SbEnds(i, end)
       \/ \E b \in BOOLEAN : SbRelease(i, b)
       \/ SbReleaseFails(i)
-----------------------------------------------------------------------------
SbTypeOK ==
  /\ sbPool \subseteq SbId /\ sbValidator \subseteq SbId /\ sbDir \subseteq SbId /\ sbLost \subseteq SbId
  /\ sbStatus \in [SbId -> {"none", "allocated", "running", "stopped", "error"}]
  /\ sbContainer \in [SbId -> {"none", "created", "running", "paused", "exited", "gone"}]

\* Within a process no container whose allocation was answered is lost: however its
\* requests end and whatever half of a release fails, it can be found in the pool and
\* released, also one that the tool of the agents allocated and then lost sight of.
\* Those whose allocation raised, and those of an earlier process, nothing ever finds
\* again, nor their directories.  A validator goes with the entry, and an entry has its
\* directory, which may stay when the entry goes.
SbNothingLost ==
  /\ \A i \in SbId : SbRunning(i) \/ sbContainer[i] = "exited" => i \in sbPool \/ i \in sbLost
  /\ sbPool \cap sbLost = {}
  /\ sbValidator \subseteq sbPool
  /\ sbPool \cup sbLost \subseteq sbDir
=============================================================================
