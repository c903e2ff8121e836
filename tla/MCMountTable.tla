----------------------------- MODULE MCMountTable -----------------------------
EXTENDS MountTable

\* '/' < 'a' < 'b' in ASCII.
MCChars == <<"/", "a", "b">>
\* /, /a, /a/, /ab, /a/b, /b
MCMountPaths == {<<"/">>, <<"/", "a">>, <<"/", "a", "/">>, <<"/", "a", "b">>,
                 <<"/", "a", "/", "b">>, <<"/", "b">>}
MCUris == {"file", "bogus"}
MCValidUris == {"file"}
=============================================================================
