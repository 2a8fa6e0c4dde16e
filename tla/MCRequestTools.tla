-------------------------- MODULE MCRequestTools --------------------------
(* A subnet of two addresses, one of which the scan skips (but may hear    *)
(* of); "x" and "y" are addresses outside it, or other ids.                *)
EXTENDS RequestTools

MCTools == {"search", "scan", "ping", "dns"}
MCSubnet == <<"a", "skipped">>
MCMac == [a |-> "ma", skipped |-> "ms"]
MCForeign == [search |-> {<<"x", "mx">>},
              scan |-> {<<"x", "mx">>, <<"skipped", "ms">>, <<"a", "mc">>},
              ping |-> {<<"ours", "other_type">>},
              dns |-> {<<"x", "val">>, <<"y", "val">>}]
===========================================================================
