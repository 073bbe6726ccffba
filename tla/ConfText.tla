------------------------------ MODULE ConfText -------------------------------
(***************************************************************************)
(* internal/wgconf/wgconf.go: the server configuration file as text.  Three*)
(* places must agree on where a client block begins and ends: AppendPeer,  *)
(* which writes it, RemovePeer, which ends it at a blank line, and         *)
(* ParseContent, which ends it at the next marker.                         *)
(*                                                                         *)
(* The text is the sequence of lines strings.Split(text, "\n") gives: a    *)
(* final newline shows as a last empty line.  A line is a pair of its kind *)
(* and its value; the line of the preshared key goes with that of the      *)
(* public key.  Other stands for what no loop looks at: the rest of the    *)
(* [Interface] section, and comments.                                      *)
(***************************************************************************)
EXTENDS WgConf, SequencesExt, Lines

CONSTANTS Editors, NoEdit,
          Shapes,       \* the layouts the file may have been written in
          MaxClients,   \* clients in the file at the start
          MaxKeys       \* keys issued in all

ASSUME ShapesAssumption == Shapes \subseteq {"script", "edited", "manual"}
ASSUME BoundsAssumption == MaxClients \in Nat /\ MaxClients < LastOctet /\ MaxKeys \in Nat

VARIABLES
  text,      \* the lines of the file
  edits,     \* for each editor the name it removes and the text it read
  lastKey,   \* the key issued last
  spliced    \* the end of another rewrite has stayed below that of one

vars == <<text, edits, lastKey, spliced>>

Blank     == <<"blank", 0>>
Iface     == <<"[Interface]", 0>>
Other     == <<"other", 0>>
Client(n) == <<"### Client", n>>
Peer      == <<"[Peer]", 0>>
Key(k)    == <<"PublicKey", k>>
Ips(i)    == <<"AllowedIPs", i>>

Line == {"blank", "[Interface]", "other", "### Client", "[Peer]", "PublicKey", "AllowedIPs"}
          \X (Names \cup Nat)

\* What a request inside RemovePeer has in hand.
Edit == [name : Names, copy : Seq(Line), cut : BOOLEAN]

ASSUME NoEditAssumption == NoEdit \notin Edit \cup [name : Names, copy : Config]

\* The lines AppendPeer formats, from the marker on.
BlockLines(b) == <<Client(b.name), Peer, Key(b.key), Ips(b.ip), Blank>>

-----------------------------------------------------------------------------

Markers(t) == {i \in DOMAIN t : t[i][1] = "### Client"}

\* The lines ParseContent counts to the block whose marker is line i.
BlockAt(t, i) ==
  LET below == {m \in Markers(t) : i < m}
  IN {j \in (i + 1) .. Len(t) : \A m \in below : j < m}

\* The value of the last of these lines of that kind; "" when there is none.
Value(t, lines, kind) ==
  LET found == {j \in lines : t[j][1] = kind}
  IN IF found = {} THEN 0 ELSE t[Max(found)][2]

ParsedPeer(t, i) ==
  LET lines == BlockAt(t, i)
  IN [name |-> t[i][2],
      key  |-> Value(t, lines, "PublicKey"),
      ip   |-> Value(t, lines, "AllowedIPs")]

\* The configuration the rest of the program sees in a text.
ParseContent(t) ==
  [iface |-> Contains(t, Iface), blocks |-> {ParsedPeer(t, i) : i \in Markers(t)}]

\* AppendPeer writes a newline and the block: the newline ends the last line, so
\* that the empty line of a final newline becomes the separator.
Appended(t, b) == t \o BlockLines(b)

\* Mutants: the loop ends a block at the next marker, as the parser does; it
\* never ends it.
RemainingToMarker(t, n) ==
  LET step(acc, line) ==
        IF line[1] = "### Client" /\ line = Client(n) THEN [acc EXCEPT !.skip = TRUE]
        ELSE IF acc.skip /\ line[1] # "### Client" THEN acc
        ELSE [skip |-> FALSE, out |-> Append(acc.out, line)]
  IN FoldLeft(step, [skip |-> FALSE, out |-> <<>>], t).out
RemainingToEnd(t, n) ==
  LET step(acc, line) ==
        IF line = Client(n) \/ acc.skip THEN [acc EXCEPT !.skip = TRUE]
        ELSE [acc EXCEPT !.out = Append(@, line)]
  IN FoldLeft(step, [skip |-> FALSE, out |-> <<>>], t).out

\* The loop of RemovePeer: from a marker of the name to the next blank line, which
\* goes too.
Remaining(t, n) ==
  LET step(acc, line) ==
        IF line = Client(n) THEN [acc EXCEPT !.skip = TRUE]
        ELSE IF acc.skip    THEN [acc EXCEPT !.skip = line # Blank]
        ELSE [acc EXCEPT !.out = Append(@, line)]
  IN FoldLeft(step, [skip |-> FALSE, out |-> <<>>], t).out

\* Mutant: the final newline is forgotten.
TrimmedOpen(t) == SubSeq(t, 1, Max({1} \cup {i \in DOMAIN t : t[i] # Blank}))

\* TrimRight of the newlines, then one newline.  Nothing but newlines leaves one
\* empty line to begin with.
Trimmed(t) ==
  LET last == Max({0} \cup {i \in DOMAIN t : t[i] # Blank})
  IN (IF last = 0 THEN <<Blank>> ELSE SubSeq(t, 1, last)) \o <<Blank>>

Removed(t, n) == Trimmed(Remaining(t, n))

\* What may stay of a text when its first bytes are written over: the lines from some
\* line on, of which the first is whole, or has lost its beginning and is nothing a
\* loop looks at, or has only its newline left.  Where the cut falls depends on the
\* lengths of the lines, which are left out.
Ends(t) ==
  UNION {{<<first>> \o SubSeq(t, i + 1, Len(t)) :
            first \in IF t[i] = Blank THEN {Blank} ELSE {t[i], Other, Blank}} :
           i \in 1 .. Len(t) - 1}

-----------------------------------------------------------------------------

\* What the angristan script or an earlier run leaves: each client after a blank
\* line; an administrator may have added more of them and comments.  A server set up
\* by hand starts without a client the program knows (a [Peer] section without a
\* marker is Other), and perhaps without a final newline.
Written(clients, shape) ==
  LET lead == IF shape = "edited" THEN <<Other>> ELSE <<>>
      tail == IF shape = "edited" THEN <<Blank>> ELSE <<>>
  IN IF shape = "manual" THEN <<Iface, Other>>
     ELSE <<Iface, Other, Blank>> \o
            FlattenSeq([i \in DOMAIN clients |-> lead \o BlockLines(clients[i]) \o tail])

Init ==
  /\ \E k \in 0 .. MaxClients, shape \in Shapes :
       \E names \in [1 .. k -> Names] :
         /\ IsInjective(names)
         /\ shape = "manual" => k = 0
         /\ text = Written([i \in 1 .. k |-> [name |-> names[i], key |-> i, ip |-> i + 1]], shape)
         /\ lastKey = k
  /\ edits = [e \in Editors |-> NoEdit]
  /\ spliced = FALSE

\* Create has checked the name on a text of any age.  The address it picks there is
\* data to this module: the one of the present text stands for it.
AppendToFile ==
  /\ lastKey < MaxKeys
  /\ \E n \in Names, i \in Octets :
       /\ FindFreeIP(i, ParseContent(text).blocks)
       /\ text' = Appended(text, [name |-> n, key |-> lastKey + 1, ip |-> i])
  /\ lastKey' = lastKey + 1
  /\ UNCHANGED <<edits, spliced>>

ReadFile(e) ==
  /\ edits[e] = NoEdit
  /\ \E n \in Names :
       edits' = [edits EXCEPT ![e] = [name |-> n, copy |-> text, cut |-> FALSE]]
  /\ UNCHANGED <<text, lastKey, spliced>>

\* os.WriteFile opens with O_TRUNC.
Truncate(e) ==
  /\ edits[e] # NoEdit /\ ~edits[e].cut
  /\ text' = <<Blank>>
  /\ edits' = [edits EXCEPT ![e].cut = TRUE]
  /\ UNCHANGED <<lastKey, spliced>>

\* The write starts at offset 0, whatever the file holds by then: what another
\* editor wrote after this one's truncation is written over as far as this content
\* goes, and the rest stays.
WriteFile(e) ==
  /\ edits[e] # NoEdit /\ edits[e].cut
  /\ \E content \in {Removed(edits[e].copy, edits[e].name)} :
       \/ text' = content /\ UNCHANGED spliced
       \/ /\ text # <<Blank>>
          /\ \E end \in Ends(text) : text' = Front(content) \o end
          /\ spliced' = TRUE
  /\ edits' = [edits EXCEPT ![e] = NoEdit]
  /\ UNCHANGED lastKey

RemovePeer(e) == ReadFile(e) \/ Truncate(e) \/ WriteFile(e)

Next == AppendToFile \/ \E e \in Editors : RemovePeer(e)

Spec == Init /\ [][Next]_vars

-----------------------------------------------------------------------------

\* The client whose block a line is in, by the blank lines; Blank if none.
Owner(t, i) ==
  LET above == {m \in Markers(t) : m <= i /\ \A j \in m .. i : t[j] # Blank}
  IN IF above = {} THEN Blank ELSE t[Max(above)]

\* The line above a marker belongs to no block and the last line ends in a newline,
\* so that the same will hold of the next block: otherwise RemovePeer takes the
\* client below along with the one it removes.  And the blocks stand in the order
\* of their keys, which WgConf takes for granted where it speaks of the first and
\* the last block of a name.
WellFormed ==
  spliced \/
    /\ \A i \in Markers(text) : i > 1 => Owner(text, i - 1) = Blank
    /\ Markers(text) # {} => text[Len(text)] = Blank
    /\ \A i, j \in Markers(text) :
         i < j => ParsedPeer(text, i).key < ParsedPeer(text, j).key

\* A removal takes the lines of the blocks of that name and no other: the comments
\* and settings of an administrator and the other clients stay as they were, in
\* their order, up to blank lines, until two rewrites run into each other.
OnlyTheBlock ==
  [][\A e \in Editors : WriteFile(e) /\ ~spliced' =>
       LET old == edits[e].copy
           others == {i \in DOMAIN old :
                        old[i] # Blank /\ Owner(old, i) # Client(edits[e].name)}
       IN SameLines(old, others, text', {i \in DOMAIN text' : text'[i] # Blank})]_vars

View == INSTANCE ConfFile WITH
  conf <- ParseContent(text),
  edits <- [e \in Editors |->
             IF edits[e] = NoEdit THEN NoEdit
             ELSE [name |-> edits[e].name, copy |-> ParseContent(edits[e].copy)]]

\* Through ParseContent, every edit of the text is the edit of a set of blocks that
\* the rest of the models take it for: a new block leaves the others alone, a
\* removal takes the blocks of its name and nothing else, until two rewrites run
\* into each other.
ImplementsConfFile == View!Spec
=============================================================================
