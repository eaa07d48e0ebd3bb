------------------------------ MODULE MCCrypto ------------------------------
(* Two paths besides that of the menu; every library call may succeed and  *)
(* fail, init_public_key also with the error that is not looked at.        *)
EXTENDS Crypto

CONSTANTS p1, p2

MCPaths == {p1, p2}
MCMayReturn ==
  [derive           |-> {"CX_OK", "CX_INTERNAL_ERROR"},
   init_private_key |-> {"CX_OK", "CX_EC_INVALID_CURVE", "CX_INVALID_PARAMETER"},
   init_public_key  |-> {"CX_OK", "CX_EC_INVALID_CURVE", "CX_INVALID_PARAMETER"},
   generate_pair    |-> {"CX_OK", "CX_INTERNAL_ERROR", "CX_EC_INVALID_POINT"},
   compress         |-> {"CX_OK", "CX_EC_INFINITE_POINT"},
   sign             |-> {"CX_OK", "CX_EC_INVALID_CURVE"}]
=============================================================================
