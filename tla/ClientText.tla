----------------------------- MODULE ClientText ------------------------------
(***************************************************************************)
(* internal/wgconf/junk.go and BuildClientConfig: the text of one client   *)
(* configuration, from the day it is built, or found where another tool    *)
(* left it, through any number of downloads.  GetConfig puts the Jc, Jmin  *)
(* and Jmax lines into a configuration without them and stores the result. *)
(*                                                                         *)
(* Lines are as in ConfText; the three lines of the parameters are one     *)
(* line that carries them.                                                 *)
(***************************************************************************)
EXTENDS Naturals, SequencesExt, Lines

CONSTANTS Draws,       \* what the three calls of randInt may return
          MaxForeign,  \* lines of a configuration another tool has written
          Nothing      \* no answer yet, or an error for an answer

\* The arguments of the three calls.
ASSUME DrawsAssumption == Draws \subseteq [jc : 2 .. 7, jmin : 8 .. 48, delta : 16 .. 96]
ASSUME MaxForeignAssumption == MaxForeign \in Nat

VARIABLES
  stored,   \* the configuration in the table
  original, \* the configuration it was at first (history)
  handed,   \* the text of the last download
  junk      \* the parameters EnsureJunkParams or Create generated last

clientVars == <<stored, original, handed, junk>>

CBlank   == <<"blank", 0>>
CIface   == <<"[Interface]", 0>>
CPeer    == <<"[Peer]", 0>>
Setting  == <<"setting", 0>>
Junk(j)  == <<"Jc", j>>

\* Mutant: the sizes are not capped.
GenerateUncapped(d) == [jc |-> d.jc, jmin |-> d.jmin, jmax |-> d.jmin + d.delta]

\* GenerateJunkParams.  The last correction never applies to these ranges.
GenerateJunkParams(d) ==
  LET sum == d.jmin + d.delta
      cap == IF sum > 128 THEN 128 ELSE sum
  IN [jc |-> d.jc, jmin |-> d.jmin, jmax |-> IF cap <= d.jmin THEN d.jmin + 8 ELSE cap]

HasJunkParams(t) == \E i \in DOMAIN t : t[i][1] = "Jc"

\* Mutant: the first [Peer] of the text, wherever the [Interface] section is.
PeerAnywhere(t) == {p \in DOMAIN t : t[p] = CPeer}

\* The [Peer] lines below an [Interface]; injectJunkParams stops at the first.
PeerBelowInterface(t) ==
  {p \in DOMAIN t : t[p] = CPeer /\ \E i \in 1 .. p : t[i] = CIface}

\* TrimRight of the newlines, then one newline.
OneNewline(t) == SubSeq(t, 1, Max({i \in DOMAIN t : t[i] # CBlank})) \o <<CBlank>>

\* injectJunkParams: the lines, and an empty one, above that [Peer].
Injected(t, j) ==
  LET p == Min(PeerBelowInterface(t))
  IN OneNewline(SubSeq(t, 1, p - 1) \o <<Junk(j), CBlank>> \o SubSeq(t, p, Len(t)))

BuildClientConfig(j) ==
  <<CIface, Setting, Junk(j), CBlank, CPeer, Setting, CBlank>>

\* What another tool or an administrator may have left, without junk parameters.
Foreign ==
  {Append(t, CBlank) : t \in SeqOf({CIface, CPeer, Setting, CBlank}, MaxForeign)}

ClientInit ==
  /\ \/ /\ \E d \in Draws : junk = GenerateJunkParams(d)
        /\ stored = BuildClientConfig(junk)
     \/ junk = Nothing /\ stored \in Foreign
  /\ original = stored
  /\ handed = Nothing

\* GetConfig with a configuration that has the lines.
Download ==
  /\ HasJunkParams(stored)
  /\ handed' = stored
  /\ UNCHANGED <<stored, original, junk>>

\* GetConfig with one that has not.  The error of the UpsertPeer that stores the
\* result is dropped.
Complete ==
  /\ ~HasJunkParams(stored) /\ PeerBelowInterface(stored) # {}
  /\ \E d \in Draws :
       /\ junk' = GenerateJunkParams(d)
       /\ handed' = Injected(stored, junk')
  /\ stored' \in {stored, handed'}
  /\ UNCHANGED original

\* "[Interface] section not found": GetConfig answers with the error.
Refuse ==
  /\ ~HasJunkParams(stored) /\ PeerBelowInterface(stored) = {}
  /\ handed' = Nothing
  /\ UNCHANGED <<stored, original, junk>>

ClientNext == Download \/ Complete \/ Refuse

ClientSpec == ClientInit /\ [][ClientNext]_clientVars

-----------------------------------------------------------------------------

\* The parameters an AmneziaWG client is given fit together, whatever the random
\* numbers were: some packets, of at least 8 and at most 128 bytes, and a range
\* that is not empty.
JunkFits ==
  junk # Nothing =>
    /\ junk.jc \in 2 .. 7
    /\ 8 <= junk.jmin /\ junk.jmin < junk.jmax /\ junk.jmax <= 128

\* What is downloaded, the first time or later, is the configuration of the client
\* with its other lines as they were and with the parameters once, in the
\* [Interface] section: a second set, or one in the [Peer] section, and the client
\* would refuse the file.
HandedComplete ==
  handed # Nothing =>
    /\ \E i \in DOMAIN handed :
         /\ {k \in DOMAIN handed : handed[k][1] = "Jc"} = {i}
         /\ \E h \in 1 .. i : handed[h] = CIface /\ \A k \in h .. i : handed[k] # CPeer
    /\ LET content(t) == {i \in DOMAIN t : t[i][1] # "Jc" /\ t[i] # CBlank}
       IN SameLines(handed, content(handed), original, content(original))
=============================================================================
