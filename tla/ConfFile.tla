------------------------------ MODULE ConfFile -------------------------------
(***************************************************************************)
(* What the rest of the program takes the server configuration file for: a *)
(* record of WgConf that requests change in three ways.  AppendPeer adds   *)
(* one block; RemovePeer reads, truncates and writes back what it read     *)
(* without the blocks of a name.  PeerService is built on these steps.     *)
(***************************************************************************)
EXTENDS WgConf

CONSTANTS Editors,   \* requests inside RemovePeer
          NoEdit     \* an editor that is not

VARIABLES
  conf,      \* the configuration
  edits,     \* for each editor the name it removes and the copy it read
  lastKey,   \* the key issued last
  spliced    \* two rewrites have run into each other

vars == <<conf, edits, lastKey, spliced>>

Init ==
  /\ conf \in Config /\ conf.iface
  /\ \A b \in conf.blocks : b.key <= lastKey
  /\ edits = [e \in Editors |-> NoEdit]
  /\ spliced = FALSE

\* A new block has a new key; its name and address may be taken.
Append ==
  /\ lastKey' = lastKey + 1
  /\ \E b \in conf'.blocks : b.key = lastKey + 1 /\ conf' = AppendPeer(conf, b)
  /\ UNCHANGED <<edits, spliced>>

Read(e) ==
  /\ UNCHANGED <<lastKey, spliced, conf>>
  /\ edits[e] = NoEdit
  /\ \E n \in Names : edits' = [edits EXCEPT ![e] = [name |-> n, copy |-> conf]]

Truncate(e) ==
  /\ UNCHANGED <<lastKey, spliced>>
  /\ conf' = Truncated
  /\ edits[e] # NoEdit
  /\ UNCHANGED edits

\* os.WriteFile writes at offset 0 of a file it has truncated earlier: when another
\* request has written a longer text meanwhile, the end of that one stays.
Write(e) ==
  /\ edits[e] # NoEdit
  /\ edits' = [edits EXCEPT ![e] = NoEdit]
  /\ LET content == WithoutPeer(edits[e].copy, edits[e].name)
     IN \/ UNCHANGED spliced /\ conf' = content
        \/ spliced' = TRUE /\ conf' \in Splices(content, conf)
  /\ UNCHANGED lastKey

\* What later edits make of a file with a block that was cut depends on its lines.
Spliced == spliced /\ spliced'

Next ==
  \/ Spliced
  \/ Append
  \/ \E e \in Editors : Read(e) \/ Truncate(e) \/ Write(e)

Spec == Init /\ [][Next]_vars
=============================================================================
