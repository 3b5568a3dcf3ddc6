------------------------------- MODULE MCData -------------------------------
(* Data, configuration and reports: splitters, rotated log files, the ring buffer and the
   order of log files, the loading of a configuration, MultiDecoders, messages and
   matchers, self-reports.
   Each behaviour is of one component, named by `component`; the others keep a
   fixed initial state, so that one run explores them all side by side. *)
EXTENDS Splitter, Logstream, LogstreamData, ConfigLoad, EnvSub, MultiDecoder,
        Matcher, Report

VARIABLE component

allVars == <<component, splvars, lsvars, ldvars, cfvars, envvars, mvars, mtvars, rpvars>>

\* Sections of a configuration: name, category, fault, subdecoders, can_exit.
Section(n, c, f, subs, e) == [name |-> n, cat |-> c, fault |-> f, subs |-> subs, exit |-> e]
Plain(n, c, f) == Section(n, c, f, <<>>, <<"unset", "none">>)
Multi(n, f, subs) == Section(n, "MultiDecoder", f, subs, <<"unset", "none">>)
MCCfDefaults == {Plain("p", "Decoder", "none")}
MCCfSections ==
    {Plain("d", "Decoder", "none"), Plain("d", "Decoder", "prep"),
     Multi("m", "none", <<"p", "p">>), Multi("m", "none", <<"n">>), Multi("m", "init", <<"d">>),
     Multi("n", "none", <<"m">>),
     Plain("p", "Decoder", "maker"), Multi("p", "none", <<"d">>),
     Plain("e", "Encoder", "none"), Plain("e", "Encoder", "prep"), Plain("s", "Splitter", "runner"),
     Section("i", "Input", "none", <<>>, <<"unset", "yes">>),
     Section("i", "Input", "none", <<>>, <<"no", "yes">>),
     Section("d", "Filter", "none", <<>>, <<"unset", "text">>),
     Section("o", "Output", "none", <<>>, <<"yes", "nil">>),
     Plain("hekad", "Output", "none")}
MCCfFileSizes == <<2, 1>>
MCRpReqs == [q \in {"r1", "r2"} |-> IF q = "r1" THEN "stdout" ELSE "msg"]
MCRpDecoders == <<"d1", "d2", "d3">>
MCRpSets == [globals |-> {"g"}, inputs |-> {"i"}, helpers |-> {}, filters |-> {"f"}, outputs |-> {"o"}]

\* The initial state of a component that does not move.
SplPin ==
    /\ splconf = [kind |-> "null", entry |-> "bytes", keep |-> TRUE, incomplete |-> TRUE]
    /\ stream = [k \in 1..SplLen |-> CHOOSE l \in Letters("null") : TRUE]
LsPin == lconf = CHOOSE c \in LsConfs : TRUE
LdPin == lfiles = <<>> /\ lsort = [order |-> <<>>]
CfPin == cffiles = [k \in DOMAIN CfFileSizes |-> {}] /\ cfbroken = {}
EnvPin == envText = <<>>
MPin == mconf = [all |-> TRUE, encodes |-> <<TRUE>>]
MtPin == mtSpec = <<>> /\ mtHeap = <<>>

Init ==
    /\ component \in {"splitter", "logstream", "logfiles", "config", "env", "multi", "matcher", "report"}
    /\ IF component = "splitter" THEN SplInit ELSE SplPin /\ SplInit
    /\ IF component = "logstream" THEN LsInit ELSE LsPin /\ LsInit
    /\ IF component = "logfiles" THEN LdInit ELSE LdPin /\ LdInit
    /\ IF component = "config" THEN CfInit ELSE CfPin /\ CfInit
    /\ IF component = "env" THEN EnvInit ELSE EnvPin /\ EnvInit
    /\ IF component = "multi" THEN MInit ELSE MPin /\ MInit
    /\ IF component = "matcher" THEN MtInit ELSE MtPin /\ MtInit
    /\ RpInit

\* A step of one component leaves the others alone.
OnlySplitter ==
    /\ component = "splitter"
    /\ UNCHANGED <<component, lsvars, ldvars, cfvars, envvars, mvars, mtvars, rpvars>>
OnlyLogstream ==
    /\ component = "logstream"
    /\ UNCHANGED <<component, splvars, ldvars, cfvars, envvars, mvars, mtvars, rpvars>>
OnlyLogfiles ==
    /\ component = "logfiles"
    /\ UNCHANGED <<component, splvars, lsvars, cfvars, envvars, mvars, mtvars, rpvars>>
OnlyConfig ==
    /\ component = "config"
    /\ UNCHANGED <<component, splvars, lsvars, ldvars, envvars, mvars, mtvars, rpvars>>
OnlyEnv ==
    /\ component = "env"
    /\ UNCHANGED <<component, splvars, lsvars, ldvars, cfvars, mvars, mtvars, rpvars>>
OnlyMulti ==
    /\ component = "multi"
    /\ UNCHANGED <<component, splvars, lsvars, ldvars, cfvars, envvars, mtvars, rpvars>>
OnlyMatcher ==
    /\ component = "matcher"
    /\ UNCHANGED <<component, splvars, lsvars, ldvars, cfvars, envvars, mvars, rpvars>>
OnlyReport ==
    /\ component = "report"
    /\ UNCHANGED <<component, splvars, lsvars, ldvars, cfvars, envvars, mvars, mtvars>>

Next ==
    \/ OnlySplitter /\ SplNext
    \/ OnlyLogstream /\ LsNext
    \/ OnlyLogfiles /\ LdNext
    \/ OnlyConfig /\ CfNext
    \/ OnlyEnv /\ EnvNext
    \/ OnlyMulti /\ MNext
    \/ OnlyMatcher /\ MtNext
    \/ OnlyReport /\ RpNext

\* The variables of the component that moves.
own ==
    CASE component = "splitter" -> splvars
      [] component = "logstream" -> lsvars
      [] component = "logfiles" -> ldvars
      [] component = "config" -> cfvars
      [] component = "env" -> envvars
      [] component = "multi" -> mvars
      [] component = "matcher" -> mtvars
      [] component = "report" -> rpvars

\* The fairness of the components: as many conjuncts as the one with most needs.
Weak1 ==
    \/ component = "splitter" /\ (SplitStream \/ SplitBytes)
    \/ component = "logstream" /\ LsReader
    \/ component = "report" /\ RpCaller("r1")
Weak2 ==
    \/ component = "logstream" /\ Rescan
    \/ component = "report" /\ RpCaller("r2")
Weak3 ==
    \/ component = "logstream" /\ CreateLog
    \/ component = "report" /\ RpRouted
Strong1 ==
    \/ component = "report" /\ RpWalk("r1")
Strong2 ==
    \/ component = "report" /\ RpWalk("r2")

Spec ==
    /\ Init /\ [][Next]_allVars
    /\ WF_own(Weak1 /\ UNCHANGED component)
    /\ WF_own(Weak2 /\ UNCHANGED component)
    /\ WF_own(Weak3 /\ UNCHANGED component)
    /\ SF_own(Strong1 /\ UNCHANGED component)
    /\ SF_own(Strong2 /\ UNCHANGED component)

\* The types of all components.
DataTypeOK == SplTypeOK /\ LsTypeOK /\ LdTypeOK /\ CfTypeOK /\ MTypeOK /\ MtTypeOK /\ RpTypeOK

\* SplitStream and SplitBytes deliver the records of a reference definition, and
\* every byte read is in a record, in a gap that was counted, or in the buffer.
SplitterExact == component = "splitter" => SplitsAsReference /\ LettersAccounted


\* The ring buffer, the order of log files, EnvSub, compiled matchers and their tests
\* on fields compute what their reference definitions say, and a copied message is
\* independent of its original.
DataAsReference ==
    /\ component = "logfiles" => RingHoldsLast /\ SortsFiles
    /\ component = "env" => EnvSubstitutes
    /\ component = "matcher" => CopyIndependent /\ CompiledAsWritten /\ TestsAsDocumented



\* A report tells of every plugin once, although requests share one pack and plugins
\* leave meanwhile (the unlocked allDecoders apart).
ReportsComplete == component = "report" => ReportsTrue

\* The Logstream delivers every record of a log that is rotated, SplitStream comes to
\* the end of every stream, and a request for a report is answered.
DataProgress ==
    /\ component = "logstream" => AllDelivered
    /\ component = "splitter" => SplitEnds
    /\ component = "report" => ReportsEnd
=============================================================================
