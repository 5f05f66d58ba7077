------------------------------ MODULE Projects ------------------------------
(***************************************************************************)
(* The project generator (orchestration/project_generator.py) and its      *)
(* endpoints (orchestration/api.py): a prompt becomes a stack, the stack   *)
(* the files of a project, and a stored generation lists the files that a  *)
(* deletion removes.  Projects are directories named after the project, so *)
(* generations of one name share them.                                     *)
(*                                                                         *)
(* The endpoints give no progress callback, so that nothing is awaited     *)
(* between the start of a generation and its end: each is one step.        *)
(* Of the text of a file there is what other files of the project need.    *)
(***************************************************************************)
EXTENDS Naturals, Sequences, FiniteSets

CONSTANTS
  PgGeneration, \* generations
  PgProject,    \* names of projects
  PgPrompts,    \* what users ask for: sets of words
  PgGiven       \* the stacks that users give instead

VARIABLES
  pgDirs,  \* directories that exist, of which project
  pgDisk,  \* files that exist, of which project
  pgStore, \* _generations
  pgTaken  \* the generations of whose files the deletion of another took some

pgVars == <<pgDirs, pgDisk, pgStore, pgTaken>>

(***************************************************************************)
(* From the prompt to the stack                                            *)
(***************************************************************************)

\* Words are looked for anywhere in the prompt, so that a word says what occurs in
\* it: these are the words in which one of the others does.
PgSays(word) ==
  {word} \cup CASE word \in {"django", "mongo", "mongodb", "golang"} -> {"go"} \cup (IF word = "mongodb" THEN {"mongo"} ELSE {})
                [] word = "javascript" -> {"java"}
                [] word = "tests" -> {"ts"}
                [] word = "postgresql" -> {"postgres"}
                [] word = "nextjs" -> {"next"}
                [] OTHER -> {}

PgSaid(prompt) == UNION {PgSays(w) : w \in prompt}

\* if, elif, else.
PgFirst(rules, said, otherwise) ==
  LET hits == {i \in DOMAIN rules : rules[i].words \cap said # {}} IN
  IF hits = {} THEN otherwise ELSE rules[CHOOSE i \in hits : \A j \in hits : i <= j].means

PgIf(words, means) == [words |-> words, means |-> means]

PgLanguage(said) ==
  PgFirst(<<PgIf({"typescript", "ts"}, "typescript"), PgIf({"go", "golang"}, "go"), PgIf({"rust"}, "rust"),
            PgIf({"java"}, "java"), PgIf({"node", "javascript"}, "javascript")>>, said, "python")

PgDatabase(said) ==
  PgFirst(<<PgIf({"postgres", "postgresql"}, "postgresql"), PgIf({"mysql"}, "mysql"), PgIf({"mongo"}, "mongodb"),
            PgIf({"sqlite"}, "sqlite"), PgIf({"redis"}, "redis")>>, said, "none")

PgFramework(language, said) ==
  CASE language = "python" ->
         PgFirst(<<PgIf({"fastapi"}, "fastapi"), PgIf({"flask"}, "flask"), PgIf({"django"}, "django")>>, said, "fastapi")
    [] language = "typescript" ->
         PgFirst(<<PgIf({"next"}, "nextjs"), PgIf({"express"}, "express"), PgIf({"nest"}, "nestjs")>>, said, "nextjs")
    [] language = "go" -> "gin"
    [] language = "rust" -> "actix"
    [] OTHER -> "none"

PgStackOf(prompt) ==
  LET said == PgSaid(prompt) language == PgLanguage(said) IN
  [language |-> language, framework |-> PgFramework(language, said), database |-> PgDatabase(said), docker |-> TRUE]

\* A stack that is given is taken as it is.
PgStacks == {PgStackOf(prompt) : prompt \in PgPrompts} \cup PgGiven

(***************************************************************************)
(* The plan                                                                *)
(***************************************************************************)
PgMilestone == << {1, 2}, {3, 4, 5}, {6, 7}, {8, 9} >>

PgTaskDeps == << {}, {1}, {1}, {3}, {3}, {4}, {4}, {4}, {8} >>

PgDependencies(stack) ==
  IF stack.language = "python"
    THEN {"fastapi", "uvicorn", "pydantic", "pytest", "pytest-asyncio"} \cup
         CASE stack.database = "postgresql" -> {"asyncpg"}
           [] stack.database = "mysql" -> {"aiomysql"}
           [] stack.database = "mongodb" -> {"motor"}
           [] OTHER -> {}
    ELSE {}

PgDirectories(language) ==
  CASE language = "python" -> {"app", "tests"}
    [] language \in {"typescript", "rust"} -> {"src", "tests"}
    [] language = "go" -> {"cmd", "internal", "pkg", "tests"}
    [] OTHER -> {}

(***************************************************************************)
(* The files: their directory and their name                               *)
(***************************************************************************)
PgMain(language) ==
  CASE language = "typescript" -> <<"src", "index.ts">>
    [] language = "javascript" -> <<"src", "index.js">>
    [] language = "go" -> <<"cmd", "main.go">>
    [] language = "rust" -> <<"src", "main.rs">>
    [] OTHER -> <<".", "main.py">>

PgPackages(language) ==
  CASE language \in {"typescript", "javascript"} -> <<".", "package.json">>
    [] language = "go" -> <<".", "go.mod">>
    [] language = "rust" -> <<".", "Cargo.toml">>
    [] OTHER -> <<".", "requirements.txt">>

PgConfig(language) ==
  CASE language = "typescript" -> <<".", "tsconfig.json">>
    [] language = "javascript" -> <<".", "jsconfig.json">>
    [] language = "go" -> <<".", "config.yaml">>
    [] language = "rust" -> <<".", "config.toml">>
    [] OTHER -> <<".", "config.py">>

PgTests == <<"tests", "test_main.py">>
PgDockerfile == <<".", "Dockerfile">>
PgWorkflow == <<".github", "ci.yml">>

\* The main file that is more than a comment answers what the tests, and the README,
\* ask of it.
PgServes(language) == language \in {"python", "typescript", "go"}

PgRequirements(stack) ==
  IF stack.language = "python"
    THEN {"fastapi", "uvicorn", "pydantic", "pytest", "pytest-asyncio", "pytest-cov"} \cup
         CASE stack.database = "postgresql" -> {"asyncpg"}
           [] stack.database = "mysql" -> {"aiomysql"}
           [] OTHER -> {}
    ELSE {}

\* What the Dockerfile copies or builds by name, and what the workflow installs from
\* and tests; each has a text for the languages that it does not know.  (npm wants a
\* lock file and a build script besides, which no project has.)
PgDockerReads(language) ==
  CASE language = "python" -> {PgPackages("python"), PgMain("python")}
    [] language = "typescript" -> {PgPackages("typescript")}
    [] language = "go" -> {PgMain("go")}
    [] OTHER -> {}

PgWorkflowReads(language) ==
  CASE language = "python" -> {PgPackages("python"), PgTests}
    [] language \in {"typescript", "javascript"} -> {PgPackages(language)}
    [] language = "go" -> {PgPackages("go")}
    [] OTHER -> {}

PgFiles(stack) ==
  <<PgMain(stack.language), PgPackages(stack.language), PgConfig(stack.language), <<".", "README.md">>, <<".", ".gitignore">>>>
    \o (IF stack.language = "python" THEN <<PgTests>> ELSE << >>)
    \o (IF stack.docker THEN <<PgDockerfile>> ELSE << >>)
    \o <<PgWorkflow>>

PgAll(files) == {files[i] : i \in DOMAIN files}

(***************************************************************************)
(* Generations                                                             *)
(***************************************************************************)
PgNothing == [project |-> "none"]
PgStored == {g \in PgGeneration : pgStore[g] # PgNothing}

PgInit ==
  /\ pgDirs = {} /\ pgDisk = {}
  /\ pgStore = [g \in PgGeneration |-> PgNothing]
  /\ pgTaken = {}

\* generate_code, with a disk that takes no more than so many files.  The directory
\* of a file is made beforehand only if it is one of the language's, or ".github".
PgFits(p, stack, f) ==
  f[1] \in PgDirectories(stack.language) \cup {".", ".github"} \/ <<p, f[1]>> \in pgDirs

PgWritten(p, stack, room) ==
  LET files == PgFiles(stack)
      stops == {i \in DOMAIN files : i > room \/ ~PgFits(p, stack, files[i])}
  IN  {i \in DOMAIN files : \A j \in stops : i < j}

PgGenerateCode(p, stack, room) ==
  /\ pgDirs' = pgDirs \cup ({p} \X PgDirectories(stack.language))
  /\ pgDisk' = pgDisk \cup {<<p, PgFiles(stack)[i]>> : i \in PgWritten(p, stack, room)}

\* POST /generate.  One that fails lists nothing, whatever it has written.
PgGenerate(g, p, stack, room) ==
  LET files == PgFiles(stack)
      whole == PgWritten(p, stack, room) = DOMAIN files
  IN
  /\ g \notin PgStored
  /\ PgGenerateCode(p, stack, room)
  /\ pgStore' = [pgStore EXCEPT ![g] =
       [project |-> p, stack |-> stack, room |-> room = Len(files), status |-> IF whole THEN "completed" ELSE "failed",
        files |-> IF whole THEN PgAll(files) ELSE {}]]
  /\ UNCHANGED pgTaken

\* POST /generate/stream writes the files and stores nothing.  Its answer is an error:
\* the plan in it has a date, which the answer cannot express.
PgStream(p, stack, room) ==
  /\ PgGenerateCode(p, stack, room)
  /\ UNCHANGED <<pgStore, pgTaken>>

\* DELETE: the files that the generation lists and that are still there.
PgDelete(g) ==
  LET mine == {pgStore[g].project} \X pgStore[g].files IN
  /\ g \in PgStored
  /\ pgDisk' = pgDisk \ mine
  /\ pgStore' = [pgStore EXCEPT ![g] = PgNothing]
  /\ pgTaken' = {h \in PgStored \ {g} : \/ h \in pgTaken
                                        \/ ({pgStore[h].project} \X pgStore[h].files) \cap mine # {}}
  /\ UNCHANGED pgDirs

PgNext ==
  \/ \E p \in PgProject, stack \in PgStacks : \E room \in {1, Len(PgFiles(stack))} :
       PgStream(p, stack, room) \/ \E g \in PgGeneration : PgGenerate(g, p, stack, room)
  \/ \E g \in PgGeneration : PgDelete(g)
-----------------------------------------------------------------------------
PgTypeOK ==
  /\ \A g \in PgStored : /\ pgStore[g].project \in PgProject
                         /\ pgStore[g].status \in {"completed", "failed"}
  /\ pgTaken \subseteq PgStored

\* A file that is listed is there, unless the deletion of another generation of the
\* same project took it.
PgListedThere ==
  \A g \in PgStored \ pgTaken : {pgStore[g].project} \X pgStore[g].files \subseteq pgDisk

\* A project that is completed has the files that its own files name, and tests only
\* of a program that answers them.
PgWhole ==
  \A g \in PgStored : pgStore[g].status = "completed" =>
    LET stack == pgStore[g].stack IN
    /\ PgDockerfile \in pgStore[g].files => PgDockerReads(stack.language) \subseteq pgStore[g].files
    /\ PgWorkflowReads(stack.language) \subseteq pgStore[g].files
    /\ PgTests \in pgStore[g].files => PgServes(stack.language)

\* A generation fails when the disk does, and for one language without: the directory
\* of the main file of JavaScript is one that only other languages make.  After one
\* of those has used the name of the project it works.
PgFailures ==
  \A g \in PgStored : LET stored == pgStore[g] IN
    /\ stored.status = "failed" => ~stored.room \/ stored.stack.language = "javascript"
    /\ stored.status = "completed" /\ stored.stack.language = "javascript" => <<stored.project, "src">> \in pgDirs

\* A plan can be worked on in its order, milestone by milestone, and its packages are
\* required by the project, the driver of MongoDB excepted.
PgPlanSound ==
  /\ \A m \in DOMAIN PgMilestone : \A t \in PgMilestone[m] : \A d \in PgTaskDeps[t] :
       d < t /\ \E n \in 1..m : d \in PgMilestone[n]
  /\ \A g \in PgStored : PgDependencies(pgStore[g].stack) \subseteq PgRequirements(pgStore[g].stack) \cup {"motor"}

PgSound == PgListedThere /\ PgWhole /\ PgFailures /\ PgPlanSound
=============================================================================
