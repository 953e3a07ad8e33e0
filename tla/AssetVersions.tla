--------------------------- MODULE AssetVersions ---------------------------
(***************************************************************************)
(* What the checkpoints of an asset promise its users: three complete      *)
(* contents, the one on the server, the one in the user's local file and   *)
(* the one in memory, each of which only the named operations change, and  *)
(* changes as a whole.                                                     *)
(***************************************************************************)
CONSTANTS Props, Values, Texts, Categories, Local, Blank

Content == [props : [Props -> Values], text : Texts, category : Categories]

VARIABLES phase, server, local, current

vars == <<phase, server, local, current>>

Init ==
    /\ phase = "absent"
    /\ server = Blank /\ local = Blank /\ current = Blank

IsLocal(c) == c.category = Local

\* The asset appears: from the server, from the user's file, or new.
Appear(kept, saved, shown) ==
    /\ phase = "absent"
    /\ phase' = "present"
    /\ server' = kept /\ local' = saved /\ current' = shown

Load == \E c \in Content : ~IsLocal(c) /\ Appear(c, c, c)

Unpublished == [Blank EXCEPT !.category = Local]

LoadFile == \E c \in Content : IsLocal(c) /\ Appear(Unpublished, c, c)

Create == \E c \in Content : IsLocal(c) /\ Appear(Unpublished, Unpublished, c)

Edit ==
    /\ phase = "present"
    /\ \/ \E p \in Props, v \in Values : current' = [current EXCEPT !.props[p] = v]
       \/ \E t \in Texts : current' = [current EXCEPT !.text = t]
    /\ UNCHANGED <<phase, server, local>>

Save ==
    /\ phase = "present"
    /\ local' = current
    /\ UNCHANGED <<phase, server, current>>

\* Publishing may give the content a category and a badge of its own.
Publish ==
    /\ phase = "present"
    /\ \E category \in Categories \ {Local} :
          \/ current' = [current EXCEPT !.category = category]
          \/ \E p \in Props, v \in Values :
                current' = [current EXCEPT !.category = category, !.props[p] = v]
    /\ server' = current' /\ local' = current'
    /\ UNCHANGED phase

Discard ==
    /\ phase = "present"
    /\ current' = local
    /\ UNCHANGED <<phase, server, local>>

Revert ==
    /\ phase = "present" /\ ~IsLocal(current)
    /\ local' = server /\ current' = server
    /\ UNCHANGED <<phase, server>>

Reload ==
    /\ phase = "present"
    /\ \/ local' = server
       \/ \E props \in [Props -> Values], text \in Texts :
             local' = [server EXCEPT !.props = props, !.text = text]
    /\ current' = local'
    /\ UNCHANGED <<phase, server>>

Remove ==
    /\ phase = "present" /\ IsLocal(current)
    /\ phase' = "gone"
    /\ UNCHANGED <<server, local, current>>

Next == Load \/ LoadFile \/ Create \/ Edit \/ Save \/ Publish \/ Discard
        \/ Revert \/ Reload \/ Remove

Spec == Init /\ [][Next]_vars
=============================================================================
