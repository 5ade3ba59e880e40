----------------------------- MODULE MC_FileTree -----------------------------
EXTENDS FileTree

CONSTANTS d, f1, f2, c1, c2, h1, h2

MCNames == {d, f1, f2}
MCContents == {c1, c2}
\* Two files in one directory under the root.
MCPostPaths == {<<d, f1>>, <<d, f2>>}
MCFlatPaths == {<<f1>>, <<f2>>}
MCOneHandler == {h1}
MCHandlers == {h1, h2}

====
