--------------------------- MODULE MCCoordinator ---------------------------
(* Instance of Coordinator for TLC: a setting Home Assistant writes, which *)
(* a failed read clears; the profile names, which fall back to defaults;   *)
(* and a cup counter, which is kept.                                       *)
EXTENDS Coordinator

MCSettings == <<"auto_off", "names">>
MCCounters == <<"cups">>
MCOnFailure == [r \in {"auto_off", "names", "cups"} |->
                  CASE r = "auto_off" -> "cleared"
                    [] r = "names"    -> "default"
                    [] r = "cups"     -> "kept"]
=============================================================================
