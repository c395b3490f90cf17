-------------------------- MODULE MCRuntimeSurface --------------------------
(***************************************************************************)
(* Three requests through any of the doors, a store of one run, so that    *)
(* every run that ends evicts or replaces, and two ids that callers        *)
(* choose.  Asks that the code treats alike are represented by one.        *)
(***************************************************************************)
EXTENDS RuntimeSurface, TLC

CONSTANTS r1, r2, r3, c1, c2

MCRequests == {r1, r2, r3}
MCCallerIds == {c1, c2}

Asking(doors, payloads, retrievers, headers) ==
    [door : doors, payload : payloads, retriever : retrievers, header : headers]

MCAsks ==
    Asking({"research"}, {"valid"}, {"fake", "http"}, {NoId, c1})
        \cup Asking({"form", "stream", "cli"}, {"valid"}, {"http"}, {c1})
        \cup Asking({"download", "trace"}, {"valid"}, {"http"}, {c2})
        \cup Asking({"research", "form", "cli"}, {"out of bounds"}, {"fake"}, {c1})
        \cup Asking({"cli"}, {"unparsable", "help"}, {"fake"}, {c1})
        \cup Asking({"run", "trace.json", "metrics", "pack", "nowhere", "wrong method"},
                    {"valid"}, {"fake"}, {NoId})

Interchangeable == Permutations(MCRequests)
=============================================================================
