-------------------------------- MODULE EnvSub -------------------------------
(***************************************************************************)
(* EnvSub and ReplaceEnvsFile of pipeline/config.go: %ENV[NAME] in a       *)
(* configuration file stands for the value of a variable.  The text is a   *)
(* sequence of tokens: "%", "ENV[" (four bytes), "]", " " (any byte that a *)
(* name may not have) and "x" (any other byte).                            *)
(***************************************************************************)
EXTENDS Integers, Sequences, SequencesExt

CONSTANT EnvMaxLen      \* tokens of a file

VARIABLES envText,      \* the file
          envRest,      \* what bufIn has left
          envOut,       \* bufOut
          envState      \* "reading", "done", "ErrMissingCloseDelim", "ErrInvalidChars"

envvars == <<envText, envRest, envOut, envState>>

EnvTokens == {"%", "ENV[", "]", " ", "x"}

EnvInit ==
    /\ envText \in UNION {[1..n -> EnvTokens] : n \in 0..EnvMaxLen}
    /\ envRest = envText /\ envOut = <<>> /\ envState = "reading"

Bytes(toks) == FoldSeq(LAMBDA t, n : n + (IF t = "ENV[" THEN 4 ELSE 1), 0, toks)

\* os.Getenv: some value, which is not looked at again.
Getenv(name) == <<"value">> \o name

\* Fewer than four bytes follow the "%": they are written out, and it ends.
EnvShort(rest) == <<"%">> \o rest

\* The variable's name is up to the next "]".
EnvName(rest) ==
    LET close == SelectInSeq(rest, LAMBDA t : t = "]")
        name == SubSeq(rest, 1, close - 1)
    IN  IF close = 0 THEN envState' = "ErrMissingCloseDelim" /\ UNCHANGED <<envOut, envRest>>
        ELSE IF \/ Contains(name, " ")
                \/ \E k \in 1..(Len(name) - 1) : name[k] = "%" /\ name[k + 1] = "ENV["
        THEN envState' = "ErrInvalidChars" /\ UNCHANGED <<envOut, envRest>>
        ELSE /\ envOut' = envOut \o Getenv(name)
             /\ envRest' = SubSeq(rest, close + 1, Len(rest))
             /\ UNCHANGED envState

\* One turn of the loop: up to the next "%", and what follows it.
EnvChunk ==
    /\ envState = "reading"
    /\ LET at == SelectInSeq(envRest, LAMBDA t : t = "%")
           before == SubSeq(envRest, 1, at - 1)
           rest == SubSeq(envRest, at + 1, Len(envRest))
       IN  IF at = 0
           THEN envOut' = envOut \o envRest /\ envRest' = <<>> /\ envState' = "done"
           ELSE IF before # <<>>    \* bufOut.Write of what came before
           THEN envOut' = envOut \o before /\ envRest' = <<"%">> \o rest /\ UNCHANGED envState
           ELSE IF Bytes(rest) < 4
           THEN envOut' = envOut \o EnvShort(rest) /\ envRest' = <<>> /\ envState' = "done"
           ELSE IF rest[1] = "ENV[" THEN EnvName(Tail(rest))
           ELSE envOut' = Append(envOut, "%") /\ envRest' = rest /\ UNCHANGED envState
    /\ UNCHANGED envText

EnvNext == EnvChunk \/ (envState # "reading" /\ UNCHANGED envvars)

EnvSpec == EnvInit /\ [][EnvNext]_envvars
------------------------------------------------------------------------------
(* The reference: from the left, every well-formed %ENV[...] is replaced   *)
(* and every other token stands for itself.                                *)

RECURSIVE EnvReference(_)
EnvReference(text) ==
    IF text = <<>> THEN <<"ok">>
    ELSE IF Len(text) >= 2 /\ text[1] = "%" /\ text[2] = "ENV["
    THEN LET ends == {k \in 3..Len(text) : text[k] = "]"}
             close == CHOOSE k \in ends : \A j \in ends : k <= j
             name == SubSeq(text, 3, close - 1)
         IN  IF ends = {} THEN <<"ErrMissingCloseDelim">>
             ELSE IF Contains(name, " ") \/ \E k \in 1..(Len(name) - 1) : SubSeq(name, k, k + 1) = <<"%", "ENV[">>
             THEN <<"ErrInvalidChars">>
             ELSE LET after == EnvReference(SubSeq(text, close + 1, Len(text)))
                  IN  IF after[1] = "ok" THEN <<"ok">> \o Getenv(name) \o Tail(after) ELSE after
    ELSE LET after == EnvReference(Tail(text))
         IN  IF after[1] = "ok" THEN <<"ok", text[1]>> \o Tail(after) ELSE after

\* EnvSub's result is the reference's, for every text: nothing is lost at the end
\* of the file, a "%" that opens nothing stays, and the same texts are refused.
EnvSubstitutes ==
    envState # "reading" =>
        EnvReference(envText) = IF envState = "done" THEN <<"ok">> \o envOut ELSE <<envState>>
==============================================================================
