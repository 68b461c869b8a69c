-------------------------- MODULE GatewayClientsProps --------------------------
(***************************************************************************)
(* What GatewayClients guarantees, and what its comments promise.            *)
(***************************************************************************)
EXTENDS GatewayClients

(* A position reaches only connections of the org it belongs to, even when   *)
(* two orgs use the same vehicle ID and share a bucket of byVehicle.         *)
OrgIsolation ==
    \A c \in Conns : \A i \in 1..Len(queue[c]) :
        queue[c][i] > 0 => positions[queue[c][i]][1] = OrgOf[c]

(* The positions of the stream are written to a client in their order,       *)
(* whichever goroutine sends them and in whichever way it is subscribed.  The *)
(* initial positions come from ClickHouse and overtake them, or are           *)
(* overtaken: of each vehicle a connection gets an older position after a     *)
(* newer one at most once, and never again after that.                        *)
NeverBackwards ==
    [][\A c \in Conns :
          /\ last'[c] >= last[c]
          /\ \A v \in Vehicles : shown'[c][v] < shown[c][v] => <<c, v>> \notin setBack]_vars

(* While a connection is served its subscription count is the number of its  *)
(* entries in the index, whatever lists with repeated, known or unknown      *)
(* vehicles it sent: the limit per connection really limits the index.       *)
CountIsExact ==
    \A c \in Registered : count[c] = Cardinality({s \in byVehicle : s[2] = c})

(* After RemoveAll nothing refers to the connection: no bucket and no        *)
(* Dispatch under way, so nothing is sent to it on behalf of its org.        *)
ForgottenWhenGone ==
    \A c \in Conns : phase[c] \in {"removed", "gone"} =>
        /\ c \notin byOrgAll /\ \A s \in byVehicle : s[2] # c
        /\ \A o \in Orgs, k \in {"vehicle", "all"} : <<c, k>> \notin dispatch[o].todo

(* A client that lets MaxDrops messages in a row be dropped is disconnected  *)
(* and forgotten, although the goroutine blocked in its read never learns of *)
(* the drops.                                                                *)
SlowClientsLeave ==
    \A c \in Conns : phase[c] \in {"open", "reply"} /\ drops[c] >= MaxDrops ~> phase[c] = "gone"
=============================================================================
