---------------------------- MODULE RunDefinitions ----------------------------
(***************************************************************************)
(* How the sections of welder.yaml are merged into one definition and how  *)
(* the ${arg:<name>:<default>} placeholders in it are replaced.            *)
(*                                                                         *)
(* A map (args, env) is a function from names to values, a value a string; *)
(* "" is the value the code takes for missing.  A run definition is a      *)
(* record of args, env, volumes (which stands for injectEnv as well: both  *)
(* are lists merged alike) and workDir (and containerWorkDir); a build     *)
(* definition has steps too.  Maps that Init creates are the same here as  *)
(* the empty maps they replace.                                            *)
(***************************************************************************)
EXTENDS Integers, Sequences, SequencesExt

CONSTANTS
  Refs,         \* placeholder |-> [arg: its name, or: its default or NoDefault]
  NoDefault

NoEntries == <<>>     \* the map without entries

\* Entries of the source for what the target leaves out or has empty.
MergeMapIfEmpty(source, target) ==
  [k \in DOMAIN source \cup DOMAIN target |->
     IF k \in DOMAIN target /\ (target[k] # "" \/ k \notin DOMAIN source)
     THEN target[k] ELSE source[k]]

\* Entries of the source, those that are not empty, over the target's.
OverrideMapValuesIfNotEmpty(source, target) ==
  LET Given == {k \in DOMAIN source : source[k] # ""}
  IN  [k \in Given \cup DOMAIN target |-> IF k \in Given THEN source[k] ELSE target[k]]

AppendToListIfNotExist(target, values) ==
  FoldLeft(LAMBDA list, v : IF Contains(list, v) THEN list ELSE Append(list, v), target, values)

\* With override FALSE, the way it is called everywhere.
MergeSimpleRunDefinitions(from, to) ==
  [to EXCEPT !.volumes = AppendToListIfNotExist(@, from.volumes),
             !.workDir = IF @ = "" THEN from.workDir ELSE @,
             !.env = MergeMapIfEmpty(from.env, @)]

MergeRunDefinitions(from, to) ==
  [MergeSimpleRunDefinitions(from, to) EXCEPT !.args = MergeMapIfEmpty(from.args, @)]

MergeSteps(from, to) ==
  IF from.steps # <<>> /\ to.steps = <<>> THEN [to EXCEPT !.steps = from.steps] ELSE to

\* Both, one after the other, as they are called for profiles and defaults.
Inherit(from, to) == MergeSteps(from, MergeRunDefinitions(from, to))
-----------------------------------------------------------------------------
(* Placeholders.                                                           *)

\* extArg: an argument that is there counts even when it is empty; without
\* it and without a default the placeholder stays as it is.
ExtArg(ref, args) ==
  IF Refs[ref].arg \in DOMAIN args THEN args[Refs[ref].arg]
  ELSE IF Refs[ref].or # NoDefault THEN Refs[ref].or ELSE ref

ApplyTemplate(value, args) == IF value \in DOMAIN Refs THEN ExtArg(value, args) ELSE value

ApplyTemplateOnValuesMap(map, args) == [k \in DOMAIN map |-> ApplyTemplate(map[k], args)]

\* Every string of a definition, into a copy of it.
ApplyTemplates(def, args) ==
  [def EXCEPT !.args = ApplyTemplateOnValuesMap(@, args),
              !.env = ApplyTemplateOnValuesMap(@, args),
              !.workDir = ApplyTemplate(@, args),
              !.volumes = [i \in DOMAIN @ |-> ApplyTemplate(@[i], args)]]

\* The args among themselves, then the env by the args, three times over: an
\* argument may refer to one that refers to a third.
CrossReferences(def) ==
  LET Round(d) == LET args == ApplyTemplateOnValuesMap(d.args, d.args)
                  IN  [d EXCEPT !.args = args, !.env = ApplyTemplateOnValuesMap(@, args)]
  IN  Round(Round(Round(def)))
=============================================================================
