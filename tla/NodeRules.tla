----------------------------- MODULE NodeRules -----------------------------
(***************************************************************************)
(* The transformation rules of the configuration: which nodes a rule       *)
(* selects (pkg/nodeselector) and what the selected rules make of a node   *)
(* (pkg/transformer).                                                      *)
(*                                                                         *)
(* A metadata value is a number; the negative ones stand for texts without *)
(* surrounding spaces that are not integers.  A template is the name of    *)
(* the metadata field it shows, or "bad" for one that does not parse or    *)
(* execute.                                                                *)
(***************************************************************************)
EXTENDS Integers, Sequences

LOCAL Seqs == INSTANCE SequencesExt

----------------------------------------------------------------------------
(* Selectors.  An outcome is "yes", "no", "error" or "panic".              *)

Verdict(b) == IF b THEN "yes" ELSE "no"

IsInt(value) == value >= 0

\* The only pattern looked at matches every text; NoPattern does not compile.
NoPattern == -9

ArityOK(req) ==
    CASE req.operator \in {"In", "NotIn"} -> req.values # <<>>
      [] req.operator \in {"Exists", "DoesNotExist"} -> req.values = <<>>
      [] req.operator \in {"Gt", "Lt", "Regexp"} -> Len(req.values) = 1
      [] OTHER -> FALSE

Compare(req, value) ==
    CASE req.operator = "In" -> Verdict(\E n \in DOMAIN req.values : req.values[n] = value)
      [] req.operator = "NotIn" -> Verdict(\A n \in DOMAIN req.values : req.values[n] # value)
      [] req.operator = "Exists" -> "yes"
      [] req.operator = "DoesNotExist" -> "no"
      [] req.operator = "Regexp" -> IF req.values[1] = NoPattern THEN "panic" ELSE "yes"
      [] req.operator \in {"Gt", "Lt"} ->
            IF ~(IsInt(value) /\ IsInt(req.values[1])) THEN "error"
            ELSE Verdict(IF req.operator = "Gt" THEN value > req.values[1]
                         ELSE value < req.values[1])

\* One requirement; a field that is missing makes all but one operator fail.
Requirement(req, fields) ==
    IF ~ArityOK(req) THEN "error"
    ELSE IF req.key \in DOMAIN fields THEN Compare(req, fields[req.key])
    ELSE Verdict(req.operator = "DoesNotExist")

\* The first outcome that is not in go on, or the default.
FirstStop(outcomes, goOn, default) ==
    LET stops == SelectSeq(outcomes, LAMBDA o : o \notin goOn)
    IN  IF stops = <<>> THEN default ELSE stops[1]

\* All requirements are looked at, so that an error comes before a "no".
MatchExpressions(reqs, fields) ==
    LET outcomes == [n \in DOMAIN reqs |-> Requirement(reqs[n], fields)]
    IN  FirstStop(outcomes, {"yes", "no"},
                  Verdict(reqs # <<>> /\ \A n \in DOMAIN outcomes : outcomes[n] = "yes"))

\* The terms after one that matches are not looked at.
Match(terms, fields) ==
    IF terms = <<>> THEN "yes"
    ELSE FirstStop([n \in DOMAIN terms |-> MatchExpressions(terms[n], fields)], {"no"}, "no")

----------------------------------------------------------------------------
(* Transformations.  A rule has a selector and, for each kind, templates   *)
(* by key; the keys of platformMetadata are metadata fields.               *)

Kinds == {"annotations", "labels", "taints", "platformMetadata"}

prohibitedPlatformMetadataKeys == {"hostname", "platform"}

\* Fields of PlatformMetadataSpec that are texts or Booleans, and one that is a
\* list and cannot be set; other keys name no field.
TextFields == {"hostname", "platform", "region"}
BoolFields == {"spot"}
Fields == TextFields \cup BoolFields
ListFields == {"externalips"}

\* The texts of a Boolean.
True == -5
False == -6

\* A text with a character that html/template writes as an entity (one of & < > + and
\* the quotes), and what becomes of it.
Markup == -7
Entities == -8

\* Texts that IsValidLabelValue and isValidTaintValue refuse.
InvalidValues == {-1, Markup, Entities}

\* Key names that IsQualifiedName or isQualifiedTaintName refuses.
InvalidKeys == {"reserved"}

\* The keys of a kind that a rule sets.
Keys(rule, kind) ==
    IF kind = "platformMetadata"
    THEN DOMAIN rule.platformMetadata \ prohibitedPlatformMetadataKeys
    ELSE DOMAIN rule[kind]

\* mapFromStruct has no entry for an empty text; a template shows it as such.
Empty == -2

\* executeTemplate; the package is html/template, which escapes the values it shows.
Render(template, values) ==
    IF template \notin DOMAIN values THEN Empty
    ELSE IF values[template] = Markup THEN Entities
    ELSE values[template]

\* A rule that is applied fails on a template or a check.
RuleFails(rule, values) ==
    \E kind \in Kinds : \E k \in Keys(rule, kind) :
        \/ rule[kind][k] = "bad"
        \/ kind # "platformMetadata" /\ k \in InvalidKeys
        \/ kind = "platformMetadata" /\ k \in ListFields
        \/ /\ kind \in {"labels", "taints"}
           /\ Render(rule[kind][k], values) \in InvalidValues

\* What a rule stores under a key: the text, but for a taint the template; any text
\* but "true" makes a Boolean false.
Stored(rule, kind, k, values) ==
    LET text == Render(rule[kind][k], values)
    IN  CASE kind = "taints" -> rule.taints[k]
          [] kind = "platformMetadata" /\ k \in BoolFields -> IF text = True THEN True ELSE False
          [] OTHER -> text

\* old with what the rule sets for this kind.
Overlay(old, rule, kind, values) ==
    LET keys == IF kind = "platformMetadata" THEN Keys(rule, kind) \cap Fields
                ELSE Keys(rule, kind)
    IN  [k \in DOMAIN old \cup keys |->
            IF k \in keys THEN Stored(rule, kind, k, values) ELSE old[k]]

\* Mutant: templates see what earlier rules made of the metadata.
ApplyRuleChained(spec, rule, values) ==
    [spec EXCEPT !.annotations = Overlay(@, rule, "annotations", spec.platformMetadata),
                 !.labels = Overlay(@, rule, "labels", spec.platformMetadata),
                 !.taints = Overlay(@, rule, "taints", spec.platformMetadata),
                 !.platformMetadata = Overlay(@, rule, "platformMetadata", spec.platformMetadata)]

\* One matching rule; values are the metadata before all rules.
ApplyRule(spec, rule, values) ==
    [spec EXCEPT !.annotations = Overlay(@, rule, "annotations", values),
                 !.labels = Overlay(@, rule, "labels", values),
                 !.taints = Overlay(@, rule, "taints", values),
                 !.platformMetadata = Overlay(@, rule, "platformMetadata", values)]

\* The features of the rules are read by nobody: the result has none.
NewSpec(metadata) ==
    [outcome |-> "yes", annotations |-> <<>>, labels |-> <<>>, taints |-> <<>>,
     platformMetadata |-> metadata, publicIPDiscovery |-> FALSE]

TransformNode(rules, metadata) ==
    LET step(spec, rule) ==
            LET match == Match(rule.nodeSelector, metadata)
            IN  IF spec.outcome # "yes" \/ match = "no" THEN spec
                ELSE IF match # "yes" THEN [spec EXCEPT !.outcome = match]
                ELSE IF RuleFails(rule, metadata) THEN [spec EXCEPT !.outcome = "error"]
                ELSE ApplyRule(spec, rule, metadata)
    IN  Seqs!FoldLeft(step, NewSpec(metadata), rules)
=============================================================================
