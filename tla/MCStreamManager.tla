--------------------------- MODULE MCStreamManager ---------------------------
(***************************************************************************)
(* The instances of StreamManager that TLC checks.  A behaviour follows one *)
(* scenario: "free" leaves every call, stop and event to happen at any     *)
(* time; the other two, for the properties under fairness, are an HLS      *)
(* request and a declared support of one key that nobody stops ("shared"), *)
(* and an HLS request against a DELETE and a shutdown ("stopped").         *)
(***************************************************************************)
EXTENDS StreamManager

CONSTANTS k1, k2, Scenarios

VARIABLE scenario

Call(k, kind) == [key |-> k, kind |-> kind]

\* A native HLS request and a declared support of one key
HlsAndSupport == {Call(k1, "hls"), Call(k1, "support")}

\* A viewer and a pin of one key, and a lease of another
TwoKeys == {Call(k1, "subscribe"), Call(k1, "pin"), Call(k2, "compat")}

OneStop == {[key |-> k1]}

managerVars == <<scenario, vars>>

ManagerInit == Init /\ scenario \in Scenarios

ManagerNext ==
    /\ Next /\ UNCHANGED scenario
    /\ scenario = "shared" => UNCHANGED <<stopPc, shut>>
    /\ scenario = "stopped" => \A c \in Calls : c.kind = "support" => pc'[c] = "idle"

ManagerSpec == ManagerInit /\ [][ManagerNext]_managerVars
LiveSpec == ManagerSpec /\ Fairness
=============================================================================
