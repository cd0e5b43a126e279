---------------------------- MODULE MCModuleCache ----------------------------
(* Model-checking instance of ModuleCache: a URL whose content changes,      *)
(* requested under a digest and under none, and a module that is larger than *)
(* the whole cache.  Two entries may fill the cache or exceed its bytes, and *)
(* three may fit them but exceed the number of entries.  The markers of the  *)
(* cache's keys also occur inside a name and a URL.                          *)
EXTENDS ModuleCache

CONSTANTS A, B, C, Large

Module(name, url, digest, abi) == [name |-> name, url |-> url, digest |-> digest, abi |-> abi]

FourContents == {A, B, C, Large}
SomePieces == {"m", "u", "v", UrlMark, DigestMark} \cup FourContents

(* The last module has the key of the third, but declares a digest, so that *)
(* it may run what was cached for the third; its own URL is blank.          *)
SomeModules == {
    Module(<<"m">>, <<"u">>, <<A>>, "auto"),
    Module(<<"m">>, <<"u">>, <<>>, "auto"),
    Module(<<"m">>, <<"v", DigestMark, A>>, <<>>, "auto"),
    Module(<<"m", UrlMark, "v">>, <<>>, <<A>>, "wasi")}

UrlServes == (<<"u">> :> {A, B}) @@ (<<"v", DigestMark, A>> :> {C, Large}) @@ (<<>> :> {})
Sizes == (A :> 1) @@ (B :> 3) @@ (C :> 2) @@ (Large :> 5) @@ (NoContent :> 0)
ExportsOf == (A :> {"run"}) @@ (B :> {}) @@ (C :> {"_start"}) @@ (Large :> {"run", "_start"})

(* In one chunk and in two, below, at and above the limit. *)
SomeOutputs == {<<>>, <<2>>, <<3>>, <<1, 1>>, <<1, 2>>, <<2, 1>>}
=============================================================================
