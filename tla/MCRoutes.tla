------------------------------ MODULE MCRoutes ------------------------------
(***************************************************************************)
(* A catalogue of directories: literals 1 (a) and 2 (b), parameters 11 and *)
(* 12, optionals 21 and 22, a rest 31, the group 41.  Matcher 1 is built   *)
(* in and overridden by the project's own, which accepts part 1 and the    *)
(* part 3 that is nobody's literal; matcher 2 has the wrong signature.     *)
(***************************************************************************)
EXTENDS Routes

Dir(style, id, matcher) == [style |-> style, id |-> id, matcher |-> matcher, ok |-> TRUE]

litA == Dir("plain", 1, 0)
litB == Dir("plain", 2, 0)
parP == Dir("bracket", 11, 0)
parQ == Dir("bracket", 12, 0)
parInt == Dir("bracket", 13, 1)
optO == Dir("double", 21, 0)
optW == Dir("double", 22, 0)
restR == Dir("dots", 31, 0)
restInt == Dir("dots", 32, 1)
groupG == Dir("group", 41, 0)

PageAt(path) == [path |-> path, files |-> {"page"}, reset |-> NoReset]

MCCatalogue ==
    {PageAt(d) :
        d \in {<<litA>>, <<groupG, litA>>, <<parP>>, <<parInt>>, <<parP, litB>>, <<parP, parQ>>,
               <<parQ, litB>>, <<parQ, litA, litB>>, <<parQ, restR>>, <<optO, litB>>, <<optW, litA>>,
               <<optO, parP>>, <<restR>>, <<litA, restInt>>, <<parInt, parQ, litB>>,
               <<litA, parP, optO>>, <<parP, Dir("bracket", 14, 2)>>,
               <<litA, [parP EXCEPT !.ok = FALSE]>>}}
    \cup {[path |-> <<>>, files |-> {"page", "layout", "error"}, reset |-> NoReset],
          [path |-> <<litA>>, files |-> {"server", "layout"}, reset |-> NoReset],
          [path |-> <<parQ>>, files |-> {"server"}, reset |-> NoReset],
          [path |-> <<groupG>>, files |-> {"layout"}, reset |-> NoReset],
          [path |-> <<groupG, litB>>, files |-> {"page", "layout"}, reset |-> 41],
          [path |-> <<litB>>, files |-> {"pageServer"}, reset |-> NoReset]}

MCBuiltIn == 1 :> {1}
MCMatcherDirs == 1 :> [holds |-> {"file", "package", "func", "signature"}, accepts |-> {1, 3}]
                 @@ 2 :> [holds |-> {"file", "package", "func"}, accepts |-> {1}]

MCPaths == {<<>>, <<1>>, <<2>>, <<3>>, <<0>>, <<1, 2>>, <<1, 1>>, <<3, 2>>, <<3, 1>>, <<1, 0>>, <<1, 3, 2>>,
            <<3, 1, 2>>, <<1, 1, 1>>, <<2, Bad>>}
=============================================================================
