---------------------------- MODULE MCResolvers -----------------------------
(***************************************************************************)
(* Resolvers with a response of each kind addrsFrom tells apart.           *)
(***************************************************************************)
EXTENDS Resolvers

CONSTANTS real, blockpage, v6  \* a public address, a block-page address, an IPv6 address

Says(as) == [rcode |-> "success", addrs |-> as]

MCMessages ==
    {Says({real}), Says({blockpage}), Says({real, v6}), Says({v6}), Says({}),
     [rcode |-> "nxdomain", addrs |-> {}], [rcode |-> "rcode_refused", addrs |-> {}],
     [rcode |-> "formerr", addrs |-> {}]}
=============================================================================
