\* Six mount paths: the root, nested mounts, a trailing '/', and siblings
\* that share a character prefix (/a, /ab); queries are every path of up
\* to four characters.  One crash.
CONSTANTS
    Chars <- MCChars
    MountPaths <- MCMountPaths
    Uris <- MCUris
    ValidUris <- MCValidUris
    MaxLen = 4
    MaxCrashes = 1
    NONE = NONE
SPECIFICATION Spec
INVARIANTS TypeOK ResolveIsLongestMatch MountsMatchAcknowledged
