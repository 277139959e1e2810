----------------------------- MODULE MCBroadcast -----------------------------
(***************************************************************************)
(* What the documents say of the fan-out, over StreamFanout with one more   *)
(* history: how long the stream was when Redis took the reader's first      *)
(* XREAD.  Entries of before that are not the reader's: "$" of its first    *)
(* XREAD means "only new messages from now on" (route.ts:47).               *)
(***************************************************************************)
EXTENDS MCStreamFanout

VARIABLE listening  \* length of the stream when the first XREAD was taken

NotYet == MaxEntries + 1    \* no entry comes after it

B_Init == Init /\ listening = NotYet

\* A step in which Redis takes an XREAD.
Taken == xread = "issued" /\ xread' \in {"blocked", "answered"}

B_Next ==
    /\ Next
    /\ listening' = IF Taken /\ listening = NotYet THEN Len(log) ELSE listening

B_Spec == B_Init /\ [][B_Next]_<<vars, listening>>

\* docs/guides/how-it-works.md:169: "When a new entry arrives, it's broadcast
\* to all connected dashboard clients": of the entries added after both the
\* dashboard and the reader's first XREAD came, none is passed over.
DocumentedBroadcast ==
    \A d \in Dashboards : \A i \in 2 .. Len(got[d]) : \A n \in 1 .. got[d][i] :
        n > since[d] /\ n > listening =>
            n \in gone \/ log[n] = "foreign" \/ n \in ToSet(got[d])
=============================================================================
