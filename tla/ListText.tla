----------------------------- MODULE ListText -----------------------------
(***************************************************************************)
(* The text of the list files (api/services/file_manager.py), and what the *)
(* scripts read out of it.  A text is what split("\n") makes of it: a      *)
(* nonempty sequence of lines, the last one "" iff the text ends with a    *)
(* newline.  Lines are stripped here, and no entry carries a comment.      *)
(***************************************************************************)
EXTENDS Naturals, Sequences, SequencesExt, Loops

CONSTANTS
  Entries,   \* domains of a category, or networks of a network file
  Comments,  \* comment lines with a text: a group, or a description
  MaxText,   \* bound of the texts the properties are about
  MaxRequest \* bound of the entries in one request

Blank == ""  \* an empty line, or no name

ASSUME TextAssumption == Blank \notin Entries \cup Comments /\ "#" \notin Entries \cup Comments
ASSUME EntriesAssumption == Entries \cap Comments = {} /\ MaxText \in Nat /\ MaxRequest \in Nat

Lines == {Blank, "#"} \cup Entries \cup Comments

Ended(text) == Last(text) = Blank /\ Len(text) > 1
Join(lines) == IF lines = <<>> THEN <<Blank>> ELSE lines

\* rstrip("\n")
Trimmed(text) == Join(Stripped(text, Blank))

Listed(text) == Only(Lines, text, Entries)

---------------------------------------------------------------------------
(* What the API shows: domains in groups, one per comment.                 *)

DomainGroups == [name : Comments \cup {"Ungrouped"}, domains : Seq(Entries)]
Group(name, entries) == [name |-> name, domains |-> entries]

\* The loop's variables: groups so far, name and domains of the present one.
Groupings == [done : Seq(DomainGroups), name : Comments \cup {"Ungrouped"}, now : Seq(Entries)]
Ungrouped == [done |-> <<>>, name |-> "Ungrouped", now |-> <<>>]

Push(g) == IF g.now = <<>> THEN g.done ELSE Append(g.done, Group(g.name, g.now))

ReadLine[line \in Lines] ==
  [g \in Groupings |->
     IF line \in Comments THEN [done |-> Push(g), name |-> line, now |-> <<>>]
     ELSE IF line \in Entries THEN [g EXCEPT !.now = Append(@, line)]
     ELSE g]

\* Mutant: a group ends where the next begins, and nowhere else.
GroupsUnflushed(text) == Loop(ReadLine, Ungrouped, text).done

\* _parse_groups
Groups(text) == Push(Loop(ReadLine, Ungrouped, text))

\* _parse_network_file
Description(text) ==
  LET found == Only(Lines, text, Comments)
  IN  IF found = <<>> THEN Blank ELSE Head(found)

---------------------------------------------------------------------------
(* Edits of a category.                                                    *)

New(text, entries) == Only(Lines, entries, Entries \ Range(Listed(text)))

\* add_domains; group is a comment or "".
Added(text, entries, group) ==
  Trimmed(text) \o (IF group = Blank THEN <<>> ELSE <<Blank, group>>) \o New(text, entries) \o <<Blank>>

\* delete_domains in one file: what it keeps, and what is left to remove.
DropLine[line \in Lines] ==
  [d \in [lines : Seq(Lines), left : SUBSET Entries] |->
     IF line \in d.left THEN [d EXCEPT !.left = @ \ {line}]
     ELSE [d EXCEPT !.lines = Append(@, line)]]

Deleted(text, gone) ==
  LET d == Loop(DropLine, [lines |-> <<>>, left |-> gone], text)
      rest == Join(d.lines)
  IN  IF d.left = gone THEN text ELSE IF Ended(rest) THEN rest ELSE Append(rest, Blank)

\* replace_domains_raw
Replaced(raw) == IF Last(raw) = Blank THEN raw ELSE Append(raw, Blank)

\* vpngw-update-domains.sh also reads a line that no newline ends.
ReadByDomains(text) == Listed(text)

---------------------------------------------------------------------------
(* Edits of a network file.                                                *)

AddedCidrs(text, cidrs) == Trimmed(text) \o New(text, cidrs) \o <<Blank>>

DeletedCidrs(text, gone) == Join(Only(Lines, text, Lines \ gone))

\* Mutant: the file ends with its last network.
CreatedUnended(description, cidrs) ==
  (IF description = Blank THEN <<>> ELSE <<description>>) \o Join(cidrs)

\* create_network_file
Created(description, cidrs) ==
  (IF description = Blank THEN <<>> ELSE <<description>>) \o Join(cidrs) \o <<Blank>>

\* vpngw-setup-routing.sh does not.
ReadByRouting(text) == Listed(Front(text))

---------------------------------------------------------------------------
(* Properties, over the texts and requests of a bounded length.            *)

Texts == UNION {[1..n -> Lines] : n \in 1..MaxText}
Requests == UNION {[1..n -> Entries] : n \in 0..MaxRequest}

\* Grouping loses no domain and invents none.
InGroups(groups) ==
  Loop([g \in DomainGroups |-> [all \in Seq(Entries) |-> all \o g.domains]], <<>>, groups)
GroupsWhole == \A text \in Texts : InGroups(Groups(text)) = Listed(text)

\* What is added is read, after what was there and in the group asked for.
AddExact ==
  \A text \in Texts, entries \in Requests, group \in Comments \cup {Blank} :
    LET new == New(text, entries)
        after == Added(text, entries, group)
    IN  new # <<>> =>
          /\ ReadByDomains(after) = Listed(text) \o new
          /\ group # Blank => Last(Groups(after)) = Group(group, new)

\* Of what is deleted a file loses one copy, and nothing else goes with it.
DeleteExact ==
  \A text \in Texts, gone \in SUBSET Entries :
    LET after == Deleted(text, gone)
        Others(t) == Only(Lines, t, Comments \cup (Entries \ gone))
    IN  /\ \A e \in gone : Count(Lines, after, e) = IF Count(Lines, text, e) = 0 THEN 0 ELSE Count(Lines, text, e) - 1
        /\ Others(after) = Others(text)

\* A file the API has made and edited is read whole by the routing script,
\* which drops a last line that no newline ends.
NetworksWhole ==
  \A description \in Comments \cup {Blank}, first \in Requests, more \in Requests, gone \in SUBSET Entries :
    LET made == Created(description, first)
        after == DeletedCidrs(AddedCidrs(made, more), gone)
    IN  /\ ReadByRouting(made) = first
        /\ ReadByRouting(DeletedCidrs(made, gone)) = Listed(DeletedCidrs(made, gone))
        /\ ReadByRouting(after) = Only(Lines, first \o New(made, more), Entries \ gone)
        /\ Description(after) = description
===========================================================================
