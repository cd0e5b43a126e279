---------------------------- MODULE MCAcrResolver ----------------------------
(* Model-checking instance of AcrResolver: one registry, two repositories,  *)
(* of which one name extends the other, and another host.                   *)
EXTENDS AcrResolver

Module(host, path, digest) == [registry |-> host, path |-> path, digest |-> digest]
Manifest == Module("reg", <<"v2", "a", "manifests", "sha256:m">>, <<>>)
Blob == Module("reg", <<"v2", "a", "b", "blobs", "sha256:d">>, <<>>)
Bare == Module("reg", <<"a", "b">>, <<"sha256:d">>)
Plain == Module("web", <<"d.wasm">>, <<"sha256:d">>)

(* What the policy or the parser refuses. *)
Unpinned == {
    Module("reg", <<"v2", "a", "manifests", "latest">>, <<>>),
    Module("reg", <<"a", "b">>, <<>>)}
Disallowed == {Module("other", <<"d.wasm">>, <<"sha256:d">>)}
Malformed == {
    Module("reg", <<"v2", "manifests", "sha256:m">>, <<>>),
    Module("reg", <<"v2", "a", "manifests">>, <<"sha256:d">>)}

SomeUrls == {Manifest, Blob, Bare, Plain} \cup Unpinned \cup Disallowed \cup Malformed

(* Tags whose requests declare a digest. *)
DeclaredUrls == {Module("reg", <<"v2", "a", "manifests", "latest">>, <<"sha256:d">>)}

Scope(u) ==
    IF u.registry # "reg" THEN NoScope
    ELSE IF \E i \in 1..Len(u.path) : u.path[i] = "b" THEN <<"reg", <<"a", "b">>>>
    ELSE <<"reg", <<"a">>>>
SomeScopes == [u \in SomeUrls \cup DeclaredUrls |-> Scope(u)]

Layer(media, digest) == [media |-> media, digest |-> digest]
SomeManifests == {
    <<Layer("other", "sha256:e")>>,
    <<Layer("other", "sha256:c"), Layer("wasm", "sha256:e")>>,
    <<Layer("other", "sha256:c"), Layer("other", "sha256:e")>>,
    <<Layer("wasm", "sha512:e"), Layer("wasm", "sha256:e")>>}
=============================================================================
