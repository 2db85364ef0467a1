----------------------------- MODULE AwgText -----------------------------
(***************************************************************************)
(* How an AmneziaWG config is made ready for the gateway: by upload_config *)
(* (_adapt_amneziawg_text of api/routers/vpn.py) and by the script         *)
(* vpngw-adapt-amneziawg.py, which an administrator runs before an upload. *)
(* A text is a sequence of lines, a line one of the kinds that one of the  *)
(* two tells apart: the upload takes a key in any case for what it is, the *)
(* script takes any line that starts with a key, written as here, for it.  *)
(***************************************************************************)
EXTENDS Naturals, Sequences, Functions, Loops

CONSTANT MaxLines  \* bound of the texts the properties are about

ASSUME LinesAssumption == MaxLines \in Nat

Headers == {"[Interface]", "[Peer]"}
Hooks == <<"Table", "PostUp", "PostDown">>

\* "I1 =" is an optional key without value.
Dropped == {"DNS", "I1 ="}

Keys == <<"Table", "PostUp", "PostDown", "DNS">>
OtherCase == <<"table", "postup", "postdown", "dns">>
Longer == <<"Table+", "PostUp+", "PostDown+", "DNS+">>  \* longer keys, or no "="

\* Other kinds: any other key, a blank line and "# Generated on", which a
\* generator writes on top.
Kinds == Headers \cup Range(Hooks) \cup Dropped \cup {"key", "blank", "# Generated on"}
         \cup Range(OtherCase) \cup Range(Longer)

\* What the upload and the script each read a line as.
UploadReads ==
  [line \in Kinds |-> IF line \in Range(OtherCase) THEN Keys[CHOOSE i \in 1..4 : OtherCase[i] = line]
                      ELSE IF line \in Range(Longer) THEN "key" ELSE line]
ScriptReads ==
  [line \in Kinds |-> IF line \in Range(Longer) THEN Keys[CHOOSE i \in 1..4 : Longer[i] = line]
                      ELSE IF line \in Range(OtherCase) THEN "key" ELSE line]

\* The loop's variables: has is the set of hooks seen in an [Interface].
Adaptations ==
  [out : Seq(Kinds), section : Headers \cup {"none"}, has : SUBSET Range(Hooks), done : BOOLEAN]
Begun == [out |-> <<>>, section |-> "none", has |-> {}, done |-> FALSE]

\* flush_interface_extras
Extras(has) == Only(Kinds, Hooks, Range(Hooks) \ has)
Flush(s) == [s EXCEPT !.out = @ \o Extras(s.has), !.has = Range(Hooks)]

Spaced(out) == IF out # <<>> /\ out[Len(out)] # "blank" THEN Append(out, "blank") ELSE out

\* Mutant: only a [Peer] ends the section.
CloseSectionOnPeer(s, line) ==
  IF s.section = "[Interface]" /\ ~s.done /\ line = "[Peer]"
  THEN [Flush(s) EXCEPT !.out = Spaced(@), !.done = TRUE]
  ELSE s

\* A header ends the first [Interface]: hooks it lacks go to its end.
CloseSection(s, line) ==
  IF s.section = "[Interface]" /\ ~s.done
  THEN [Flush(s) EXCEPT !.out = Spaced(@), !.done = TRUE]
  ELSE s

Line(reads) == [line \in Kinds |->
  [s \in Adaptations |->
     IF line \in Headers
     THEN LET c == CloseSection(s, line)
          IN  [c EXCEPT !.section = line, !.out = Append(@, line)]
     ELSE IF s.section # "[Interface]" THEN [s EXCEPT !.out = Append(@, line)]
     ELSE IF reads[line] \in Dropped THEN s
     ELSE [s EXCEPT !.out = Append(@, line), !.has = @ \cup ({reads[line]} \cap Range(Hooks))]]]

\* The loop both have.
Adapted(reads, raw) ==
  LET end == Loop(Line(reads), Begun, raw)
  IN  Stripped(IF end.section = "[Interface]" /\ ~end.done THEN Flush(end).out ELSE end.out, "blank")

\* _adapt_amneziawg_text
UploadAdapted(raw) == Adapted(UploadReads, raw)

\* What the script skips first.
Body(raw) ==
  LET kept == {i \in DOMAIN raw : raw[i] \notin {"blank", "# Generated on"}}
      first == IF kept = {} THEN Len(raw) + 1 ELSE CHOOSE i \in kept : \A j \in kept : i <= j
  IN  SubSeq(raw, first, Len(raw))

\* adapt of vpngw-adapt-amneziawg.py
ScriptAdapted(raw) == Adapted(ScriptReads, Body(raw))

---------------------------------------------------------------------------
(* Properties, over the texts of a bounded length.                         *)

\* The lines of the first [Interface] of a text.
Readings == [at : {"before", "in", "after"}, lines : Seq(Kinds)]
ReadLine[line \in Kinds] ==
  [r \in Readings |->
     IF r.at = "before" /\ line = "[Interface]" THEN [r EXCEPT !.at = "in"]
     ELSE IF r.at = "in" /\ line \in Headers THEN [r EXCEPT !.at = "after"]
     ELSE IF r.at = "in" THEN [r EXCEPT !.lines = Append(@, line)]
     ELSE r]
FirstInterface(text) == Loop(ReadLine, [at |-> "before", lines |-> <<>>], text).lines

\* What lines are read as, and how often as one kind.
As(reads, lines) == {reads[line] : line \in Range(lines)}
Times(reads, lines, kind) == Len(Only(Kinds, lines, {line \in Kinds : reads[line] = kind}))

Others(reads, text) == Only(Kinds, text, {line \in Kinds : reads[line] \in Headers \cup {"key"}})

Texts ==
  LET raws == UNION {[1..n -> Kinds] : n \in 0..MaxLines}
  IN  raws \cup {<<"[Interface]">> \o raw : raw \in raws}

\* What awg-quick, which takes keys in any case, needs of the text made of a
\* raw one.
Usable(raw, text) ==
  LET reads == UploadReads
      top == FirstInterface(text)
  IN  /\ "[Interface]" \in Range(raw) => Range(Hooks) \subseteq As(reads, top)
      /\ As(reads, top) \cap Dropped = {}
      /\ \A h \in Range(Hooks) :
           Times(reads, top, h) <= IF h \in As(reads, raw) THEN Times(reads, raw, h) ELSE 1
      /\ Others(reads, text) = Others(reads, raw)

AllUsable == \A raw \in Texts : Usable(raw, UploadAdapted(raw))

ReadAlike(text) == \A line \in Range(text) : UploadReads[line] = ScriptReads[line]

AllSettled ==
  \A raw \in Texts :
    /\ UploadAdapted(UploadAdapted(raw)) = UploadAdapted(raw)
    /\ LET text == ScriptAdapted(raw)
       IN  /\ ScriptAdapted(text) = text
           /\ ReadAlike(text) => UploadAdapted(text) = text
===========================================================================
