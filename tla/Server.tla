-------------------------------- MODULE Server --------------------------------
(* What the parts of the server have in common.                            *)
CONSTANTS
    Requests,   (* the goroutines net/http starts, one per request         *)
    Values,     (* the texts in bodies and in ConfigMaps                   *)
    None        (* "no such key", "no content", "no file"                  *)
=============================================================================
