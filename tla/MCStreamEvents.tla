--------------------------- MODULE MCStreamEvents ---------------------------
(* Two events about one part: of one dealer in StreamEvents.cfg, of two      *)
(* dealers that both sell it in StreamIsolation.cfg.                         *)
EXTENDS StreamEvents
=============================================================================
