----------------------------- MODULE MCArchive -----------------------------
(***************************************************************************)
(* Archives of at most two resources, one in data/ and one in the root.    *)
(***************************************************************************)
EXTENDS Archive

Res(name, sparse, lte) == [name |-> name, sparse |-> sparse, lte |-> lte]
Inner == NameOf(FALSE, <<"r">>)
Outer == NameOf(TRUE, <<"r">>)
Config(res) == [size |-> "fits", res |-> res]
SomeConfigs ==
  {Config(<<>>), Config(<<Res(Inner, FALSE, 2)>>), Config(<<Res(Inner, FALSE, 2), Res(Outer, TRUE, 1)>>),
   Config(<<Res(NameOf(TRUE, <<"data", "r">>), FALSE, 2)>>), Config(<<Res(NameOf(TRUE, Signature), FALSE, 2)>>),
   [size |-> "long", res |-> <<Res(Outer, FALSE, 2)>>]}
SomeWords == {"", "data", "r", "meta.conf", "meta.conf.ed25519"}
KeySymmetry == Permutations(Keys)
SomeContents == {<<"a">>, <<"a", "b">>, <<"vcdiff">>}
=============================================================================
