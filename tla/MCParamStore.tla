---------------------------- MODULE MCParamStore ----------------------------
(* Bounds for ParamStore: three keys instead of twelve.                    *)
EXTENDS ParamStore
=============================================================================
