---------------------------- MODULE MCNavigation ----------------------------
EXTENDS Navigation

\* Letters of the names; the extensions cpp, h and inl, sorted by name.
uA == 65
uB == 66
a == 97
b == 98
us == 95
Cpp == 1
H == 2
Inl == 3

File(dir, ext) == [dir |-> dir, title |-> 1, inner |-> NoExt, ext |-> ext]
cpp1 == File(1, Cpp)
h1 == File(1, H)
h0 == File(0, H)
h2 == File(2, H)
inl2 == File(2, Inl)
other == [h2 EXCEPT !.title = 2]
path == <<b, 92, a, 92>>      \* of directory 1, which holds the tags' files

Tag(ident, parent, ns, type, file, line) ==
    [ident |-> ident, parent |-> parent, ns |-> ns, type |-> type, file |-> file,
     path |-> path, line |-> line]

MCTypes == {"declaration", "function", "structure", "variable", "typedef"}
Ask(name, parent, ns) == Query(name, parent, ns, MCTypes)
Only(name) == Ask(name, NoPart, NoPart)
InPath(p) == [Only(NoPart) EXCEPT !.path = p]
Word(scope, ident) == [scope |-> scope, ident |-> ident]

\* 1 to 3: a class with a method; 4 to 6: one name in two namespaces; 7 to 10: names
\* that differ in their symbols; 11 to 14: a constructor and a destructor; 15: a
\* tag without a line; 16: the method declared once more.
AllTags ==
    <<Tag(<<a, uB>>, <<uA>>, << >>, "declaration", h1, 1),
      Tag(<<a, uB>>, <<uA>>, << >>, "function", cpp1, 1),
      Tag(<<uA>>, << >>, << >>, "structure", h1, 2),
      Tag(<<b>>, << >>, <<uA>>, "declaration", h1, 1),
      Tag(<<b>>, << >>, <<uA>>, "function", cpp1, 1),
      Tag(<<b>>, << >>, <<uB>>, "function", cpp1, 1),
      Tag(<<a, us, b>>, << >>, << >>, "declaration", h1, 1),
      Tag(<<a, b>>, << >>, << >>, "function", cpp1, 1),
      Tag(<<us, b, uA>>, << >>, << >>, "function", h1, 1),
      Tag(<<a, us, b>>, << >>, << >>, "function", cpp1, 1),
      Tag(<<uA>>, <<uA>>, << >>, "declaration", h1, 1),
      Tag(<<uA>>, <<uA>>, << >>, "function", cpp1, 1),
      Tag(<<Tilde, uA>>, <<uA>>, << >>, "declaration", h1, 1),
      Tag(<<Tilde, uA>>, <<uA>>, << >>, "function", cpp1, 1),
      Tag(<<b>>, << >>, << >>, "variable", h1, NoLine),
      Tag(<<a, uB>>, <<uA>>, << >>, "declaration", h1, 1)>>

MCAt == <<[file |-> h1, line |-> 1], [file |-> h1, line |-> 2],
          [file |-> cpp1, line |-> 1]>>
MCExts == <<Cpp, H, Inl>>

World(project, active, global, disk, places, t, queries, words) ==
    [project |-> Sort(project), active |-> Sort(active), global |-> Sort(global),
     disk |-> disk, places |-> places, tags |-> t, queries |-> queries, words |-> words]
AllWorlds ==
    <<World({cpp1, h1}, {cpp1, h1, h2}, {}, {cpp1, h1, h2}, {1, 2, 3}, {1, 2, 3, 16},
            {Only(Typed(<<uA>>, << >>))}, {Word(<<uA>>, <<a, uB>>)}),
      World({other}, {cpp1, h0, h1, inl2, other}, {}, {cpp1, h0, h1}, {1, 3}, {4, 5, 6},
            {Ask(Typed(<<b>>, << >>), NoPart, Typed(<<uA>>, << >>))}, {Word(<<uB>>, <<b>>)}),
      World({h1}, {cpp1, h1, h2}, {inl2}, {cpp1, h2}, {1, 3}, {7, 8, 9, 10},
            {Only(Typed(<<a>>, << >>)), Only(Typed(<<a>>, <<<<b>>>>))},
            {Word(<< >>, <<a, us, b>>), Word(<< >>, <<b>>)}),
      World({h2}, {cpp1, h2, inl2}, {h1}, {cpp1, h1, inl2}, {1, 3}, {11, 12, 13, 14},
            {Ask(Typed(<<uA>>, << >>), Exactly(<<uA>>), NoPart)},
            {Word(<< >>, <<Tilde, uA>>)}),
      World({}, {h1}, {cpp1}, {cpp1, h1}, {1, 3}, {1, 2, 15},
            {InPath(<<Star, 92, a, Star>>), InPath(<<Star, 92, b, Star>>)},
            {Word(<<b>>, <<b>>)})>>

\* TLC works these definitions out once, the value of a constant at each use.
MCInfo == AllTags
MCWorlds == AllWorlds
=============================================================================
