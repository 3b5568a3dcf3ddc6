------------------------------ MODULE ConfigLoad -----------------------------
(***************************************************************************)
(* Plugin configuration: cmd/hekad/main.go (loadFullConfig), config.go     *)
(* (PreloadFromConfigFile, LoadConfig), plugin_maker.go and the ordering   *)
(* of MultiDecoders in multidecoder.go.  The sections of the TOML files    *)
(* become makers, in the order in which a map happens to give them; the    *)
(* makers are then loaded by category, decoders first, and every one but   *)
(* an encoder's is tried by making a runner of it.  hekad goes on only     *)
(* when nothing failed.                                                    *)
(*                                                                         *)
(* A section is a record: name, cat (its category; "MultiDecoder" is kept  *)
(* apart, as in the code), fault (the first thing that is wrong with it:   *)
(* "maker", "prep", "init", "runner" or "none"), subs (of a MultiDecoder)  *)
(* and exit, the pair of can_exit in the file and the default of the       *)
(* plugin's own config struct.                                             *)
(***************************************************************************)
EXTENDS Integers, Sequences, FiniteSets, SequencesExt

CONSTANTS CfSections,   \* the sections that files are made of
          CfDefaults,   \* the sections of makeDefaultConfigs
          CfFileSizes   \* sequence: most sections of the first file, the second, ...

ASSUME CfAssumption == CfFileSizes # <<>> /\ IsFiniteSet(CfSections) /\ IsFiniteSet(CfDefaults)

VARIABLES
    cffiles,    \* the files of the directory, in order: sets of sections
    cfbroken,   \* the files that EnvSub or the TOML parser refuses
    cfpc,       \* "preload", "load", "fatal", "run"
    cfnext,     \* files opened so far
    cftodo,     \* sections of the open file not looked at yet
    cflists,    \* makersByCategory
    cfseen,     \* names of defaultConfigs that a file has
    errcnt,
    LogMsgs,
    cforder,    \* what LoadConfig has still to load
    makers,     \* <<category, name>> to section
    cfrunners   \* InputRunners, FilterRunners, OutputRunners: to section and CanExit

cfvars == <<cffiles, cfbroken, cfpc, cfnext, cftodo, cflists, cfseen, errcnt, LogMsgs,
            cforder, makers, cfrunners>>

HekaDaemon == "hekad"

CfCategories == <<"Decoder", "Encoder", "Splitter", "Input", "Filter", "Output">>
CfKeys == Range(CfCategories) \cup {"MultiDecoder"}
CfNames == {s.name : s \in CfSections \cup CfDefaults}

CfFiles(n) == {F \in SUBSET CfSections : /\ Cardinality(F) <= n
                                         /\ \A s, t \in F : s.name = t.name => s = t}

CfMaxSize == CHOOSE n \in Range(CfFileSizes) : \A k \in DOMAIN CfFileSizes : CfFileSizes[k] <= n

CfInit ==
    /\ cffiles \in {fs \in [DOMAIN CfFileSizes -> CfFiles(CfMaxSize)] :
                       \A k \in DOMAIN fs : Cardinality(fs[k]) <= CfFileSizes[k]}
    /\ cfbroken \in {{}, {Len(CfFileSizes)}}
    /\ cfpc = "preload" /\ cfnext = 0 /\ cftodo = {}
    /\ cflists = [c \in CfKeys |-> <<>>] /\ cfseen = {}
    /\ errcnt = 0 /\ LogMsgs = {} /\ cforder = <<>>
    /\ makers = << >> /\ cfrunners = << >>

------------------------------------------------------------------------------
(* PreloadFromConfigFile.                                                  *)

CfOpen ==
    /\ cfpc = "preload" /\ cftodo = {} /\ cfnext < Len(cffiles)
    /\ cfnext' = cfnext + 1
    /\ IF cfnext' \in cfbroken THEN cfpc' = "fatal" /\ UNCHANGED cftodo
       ELSE cftodo' = {s \in cffiles[cfnext'] : s.name # HekaDaemon} /\ UNCHANGED cfpc
    /\ UNCHANGED <<cffiles, cfbroken, cflists, cfseen, errcnt, LogMsgs, cforder, makers, cfrunners>>

\* Refused: a section that cannot be decoded, or is of no registered type.
NewPluginMaker(s) == s.fault # "maker"

\* A section's maker is filed by category, or its error is counted.
CfPreload ==
    /\ cfpc = "preload"
    /\ \E s \in cftodo :
          /\ cftodo' = cftodo \ {s}
          /\ cfseen' = cfseen \cup {d.name : d \in {d \in CfDefaults : d.name = s.name}}
          /\ IF NewPluginMaker(s)
             THEN cflists' = [cflists EXCEPT ![s.cat] = Append(@, s)] /\ UNCHANGED <<errcnt, LogMsgs>>
             ELSE errcnt' = errcnt + 1 /\ LogMsgs' = LogMsgs \cup {<<"maker", s.name>>} /\ UNCHANGED cflists
    /\ UNCHANGED <<cffiles, cfbroken, cfpc, cfnext, cforder, makers, cfrunners>>

------------------------------------------------------------------------------
(* orderDependencies.                                                      *)

CfMultis == cflists["MultiDecoder"]
CfNodes == {CfMultis[k].name : k \in DOMAIN CfMultis}
\* nodeMap and multiMakers: of two sections with one name, the later.
CfNode(name) == CfMultis[CHOOSE k \in DOMAIN CfMultis :
                             /\ CfMultis[k].name = name
                             /\ \A j \in DOMAIN CfMultis : CfMultis[j].name = name => j <= k]

\* rankFunc: the number of subdecoders below a name, or -1 when a path has come
\* back to where it was.
CfRank[name \in CfNames, seen \in SUBSET CfNames] ==
    IF name \in seen THEN -1
    ELSE IF name \notin CfNodes THEN 0
    ELSE LET subs == CfNode(name).subs
             below == [k \in DOMAIN subs |-> CfRank[subs[k], seen \cup {name}]]
         IN  IF -1 \in Range(below) THEN -1
             ELSE Len(subs) + FoldSeq(LAMBDA x, y : x + y, 0, below)


dependencyCount(name) == CfRank[name, {}]

CfCircular == \E n \in CfNodes : CfRank[n, {}] = -1

\* sort.Sort is not stable and starts from the order of a map.
CfSorted ==
    {p \in [1..Cardinality(CfNodes) -> CfNodes] :
        /\ Range(p) = CfNodes
        /\ \A j, k \in DOMAIN p : j < k => dependencyCount(p[j]) <= dependencyCount(p[k])}

\* The ordered nodes overwrite the list of MultiDecoder makers from its start.
CfOrdered(p) ==
    [k \in DOMAIN CfMultis |-> IF k \in DOMAIN p THEN CfNode(p[k]) ELSE CfMultis[k]]

------------------------------------------------------------------------------
(* LoadConfig.                                                             *)

\* RegisterDefault, of every default that no file has.
RegisterDefaults ==
    LET missing == {d \in CfDefaults : d.name \notin cfseen}
    IN  [k \in {<<d.cat, d.name>> : d \in missing} |-> CHOOSE d \in missing : <<d.cat, d.name>> = k]

\* The defaults are registered and the list of what to load is made.
CfLoad ==
    /\ cfpc = "preload" /\ cftodo = {} /\ cfnext = Len(cffiles)
    /\ makers' = RegisterDefaults
    /\ IF (\A c \in CfKeys : cflists[c] = <<>>) \/ CfCircular
       THEN cfpc' = "fatal" /\ UNCHANGED cforder
       ELSE /\ cfpc' = "load"
            /\ \E p \in CfSorted :
                  LET list(c) == cflists[c] \o (IF c = "Decoder" THEN CfOrdered(p) ELSE <<>>)
                  IN  cforder' = FlattenSeq([k \in DOMAIN CfCategories |-> list(CfCategories[k])])
    /\ UNCHANGED <<cffiles, cfbroken, cfnext, cftodo, cflists, cfseen, errcnt, LogMsgs, cfrunners>>

CfCategory(s) == IF s.cat = "MultiDecoder" THEN "Decoder" ELSE s.cat

\* PipelineConfig.Decoder(name): is there a maker, and does its Make succeed?
\* A MultiDecoder's Init asks the same of its subdecoders.
CfDecoder[name \in CfNames] ==
    /\ <<"Decoder", name>> \in DOMAIN makers
    /\ LET s == makers[<<"Decoder", name>>]
       IN  /\ s.fault \notin {"prep", "init"}
           /\ s.cat = "MultiDecoder" => s.subs # <<>> /\ \A k \in DOMAIN s.subs : CfDecoder[s.subs[k]]

\* pluginMaker.Make, once the maker itself is registered.
CfMake(s) ==
    /\ s.fault \notin {"prep", "init"}
    /\ s.cat = "MultiDecoder" => s.subs # <<>> /\ \A k \in DOMAIN s.subs : CfDecoder[s.subs[k]]

\* getAttr, getDefaultBool: the plugin's config struct may have no such field, a
\* bool, a nil pointer, or a field of another type by the same name.
getDefaultBool(attr) == CASE attr = "yes" -> {TRUE} [] attr = "text" -> {} [] OTHER -> {FALSE}

\* What is set in the file counts; the set is empty when the setting is refused.
CanExit(s) == IF s.exit[1] # "unset" THEN {s.exit[1] = "yes"} ELSE getDefaultBool(s.exit[2])

CfHasRunner == {"Input", "Filter", "Output"}

\* Refused: a setting of the wrong type, too large a buffer.
makeSplitterRunner(s) == s.fault # "runner"
makeInputRunner(s) == s.fault # "runner" /\ CanExit(s) # {}
\* Refused: no matcher or a bad one, a ticker nobody reads, an unknown full_action.
NewFORunner(s) == s.fault # "runner"

\* MakeRunner, after Make.
MakeRunner(s) ==
    CASE s.cat = "Splitter" -> makeSplitterRunner(s)
      [] s.cat = "Input" -> makeInputRunner(s)
      [] s.cat \in {"Filter", "Output"} -> CanExit(s) # {} /\ NewFORunner(s)
      [] OTHER -> TRUE

Put(f, key, val) == (key :> val) @@ f

\* One maker: PrepConfig, registration whatever that said, and a runner.  An error
\* of MakeRunner is not counted when the same text has been logged, which is so
\* when it is PrepConfig's error again.
CfLoadMaker ==
    /\ cfpc = "load" /\ cforder # <<>>
    /\ cforder' = Tail(cforder)
    /\ LET s == Head(cforder)
           key == <<CfCategory(s), s.name>>
           prep == s.fault = "prep"
           logged == IF prep THEN LogMsgs \cup {<<"prep", s.name>>} ELSE LogMsgs
           text == IF prep THEN <<"prep", s.name>> ELSE <<"make", s.name>>
           fails == s.cat # "Encoder" /\ ~(CfMake(s) /\ MakeRunner(s))
           counts == fails /\ text \notin logged
       IN  /\ makers' = Put(makers, key, s)
           /\ errcnt' = errcnt + (IF prep THEN 1 ELSE 0) + (IF counts THEN 1 ELSE 0)
           /\ LogMsgs' = IF counts THEN logged \cup {<<"runner", s.name>>} ELSE logged
           /\ cfrunners' = IF s.cat \in CfHasRunner /\ ~fails
                           THEN Put(cfrunners, key, <<s, CHOOSE b \in CanExit(s) : TRUE>>) ELSE cfrunners
    /\ UNCHANGED <<cffiles, cfbroken, cfpc, cfnext, cftodo, cflists, cfseen>>

\* LoadConfig's last lines; main dies of an error, or runs.
CfLoaded ==
    /\ cfpc = "load" /\ cforder = <<>>
    /\ cfpc' = IF errcnt # 0 THEN "fatal" ELSE "run"
    /\ UNCHANGED <<cffiles, cfbroken, cfnext, cftodo, cflists, cfseen, errcnt, LogMsgs, cforder,
                   makers, cfrunners>>

CfEnded == cfpc \in {"fatal", "run"}
CfNext == CfOpen \/ CfPreload \/ CfLoad \/ CfLoadMaker \/ CfLoaded \/ (CfEnded /\ UNCHANGED cfvars)

CfSpec == CfInit /\ [][CfNext]_cfvars
------------------------------------------------------------------------------
(* Properties.                                                             *)

CfTypeOK ==
    /\ cfpc \in {"preload", "load", "fatal", "run"} /\ cfnext \in 0..Len(cffiles)
    /\ DOMAIN makers \subseteq Range(CfCategories) \X CfNames
    /\ DOMAIN cfrunners \subseteq CfHasRunner \X CfNames
    /\ errcnt \in 0..(2 * Cardinality(CfSections))

\* All sections that count, and of those with one name and category the last.
CfAll == UNION {{s \in cffiles[k] : s.name # HekaDaemon} : k \in DOMAIN cffiles}
CfLast(c, name) ==
    LET has(k) == {s \in cffiles[k] : s.cat = c /\ s.name = name /\ name # HekaDaemon}
        K == {k \in DOMAIN cffiles : has(k) # {}}
    IN  IF K = {} THEN {d \in CfDefaults : d.cat = c /\ d.name = name}
        ELSE has(CHOOSE k \in K : \A j \in K : j <= k)
\* Of two MultiDecoders with one name only the last is ever made.
CfUsed == {s \in CfAll : s.cat = "MultiDecoder" => s \in CfLast(s.cat, s.name)}
\* No MultiDecoder contains itself, directly or not: every set of names has one
\* that contains none of the set.
CfAcyclic ==
    \A X \in SUBSET {s.name : s \in {t \in CfAll : t.cat = "MultiDecoder"}} \ {{}} :
        \E a \in X : \A s \in CfLast("MultiDecoder", a) : Range(s.subs) \cap X = {}

\* hekad starts exactly when every file can be read, some section is there, none
\* that is used has a fault of its own, no MultiDecoder contains itself and every
\* subdecoder exists: no fault passes unnoticed, and no order of the sections
\* makes a sound configuration fail.
CfVerdict ==
    CfEnded =>
        ((cfpc = "run") <=>
            /\ cfbroken = {} /\ CfAll # {}
            /\ \A s \in CfAll : s.fault # "maker"
            /\ \A s \in CfUsed :
                  /\ s.fault = "none"
                  /\ s.cat \in CfHasRunner => s.exit[1] # "unset" \/ s.exit[2] # "text"
                  /\ s.cat = "MultiDecoder" => s.subs # <<>>
                  /\ \A k \in DOMAIN s.subs : \/ CfLast("Decoder", s.subs[k]) # {}
                                              \/ CfLast("MultiDecoder", s.subs[k]) # {}
            /\ CfAcyclic)

\* What runs is what the files say: a later section replaces an earlier one of the
\* same name and category, a default stands where no file has its name, and a
\* runner's CanExit is what the file says, or the plugin's own default, or false.
CfComplete ==
    cfpc = "run" =>
        /\ \A c \in Range(CfCategories), n \in CfNames :
              LET multi == IF c = "Decoder" THEN CfLast("MultiDecoder", n) ELSE {}
                  wanted == IF multi # {} THEN multi ELSE CfLast(c, n)
              IN  IF <<c, n>> \in DOMAIN makers THEN wanted = {makers[<<c, n>>]} ELSE wanted = {}
        /\ \A k \in DOMAIN makers : k[1] \in CfHasRunner =>
              /\ k \in DOMAIN cfrunners
              /\ LET e == makers[k].exit
                 IN  cfrunners[k] = <<makers[k], IF e[1] = "unset" THEN e[2] = "yes" ELSE e[1] = "yes">>

\* When the first input, filter or output is made, every decoder, encoder and
\* splitter there will be is registered: they may be asked for in its Init.
CfHelpersFirst ==
    cfrunners # << >> =>
        \A c \in {"Decoder", "Encoder", "Splitter", "MultiDecoder"}, k \in 1..Len(cffiles) :
            \A s \in cffiles[k] : s.cat = c /\ s.name # HekaDaemon /\ s.fault # "maker" =>
                <<CfCategory(s), s.name>> \in DOMAIN makers
==============================================================================
