------------------------------ MODULE MCSchema ------------------------------
EXTENDS Schema

At(path, tables) == [path |-> path, tables |-> tables, group |-> "none"]

SchOffersMC == [s1 |->
    {At(<<"A", "T">>, {2}) @@ [call |-> "object", writable |-> TRUE],
     At(<<"A", "T", "K">>, {2}) @@ [call |-> "alias"],
     At(<<"A", "T", "L">>, {2}) @@ [call |-> "database", write |-> TRUE, flags |-> "DM_LONG"],
     At(<<"A", "T">>, {2}) @@ [call |-> "key", key |-> <<"K", "L">>],
     At(<<"A", "T", "U">>, {2, 3}) @@ [call |-> "object", writable |-> FALSE],
     At(<<"A", "N">>, {}) @@ [call |-> "entries", table |-> <<"A", "T">>],
     At(<<"A", "E">>, {}) @@ [call |-> "event"],
     At(<<"A", "E">>, {}) @@ [call |-> "event args", args |-> <<"x">>]},
  s2 |->
    {At(<<"A", "O", "V">>, {}) @@ [call |-> "vendor", write |-> FALSE, flags |-> "DM_BOOL"],
     At(<<"A", "O", "C">>, {}) @@ [call |-> "operation", type |-> "SyncOperation"],
     At(<<"A", "O", "C">>, {}) @@ [call |-> "operation args", args |-> <<"y">>]}]

SchAsksMC ==
    [s1 |-> {[path |-> <<"A">>, object |-> TRUE], [path |-> <<"A", "T">>, object |-> TRUE],
             [path |-> <<"A", "N">>, object |-> FALSE]},
     s2 |-> {[path |-> <<"A", "O">>, object |-> TRUE], [path |-> <<"A", "O", "V">>, object |-> FALSE]}]

SchCoresMC ==
    {<<>>,
     <<At(<<"A", "B">>, {}) @@ [call |-> "constant", flags |-> "DM_INT"]>>,
     <<At(<<"A">>, {1}) @@ [call |-> "object", writable |-> TRUE],
       At(<<"A", "S">>, {1}) @@ [call |-> "secure", flags |-> "DM_STRING"],
       At(<<"A", "M">>, {1}) @@ [call |-> "automatic", write |-> FALSE, flags |-> "DM_DATETIME"]>>}

RestrictionsMC == {{"OBJ"}, {"GET", "CMD"}, {"SET", "ADD", "DEL"}}

=============================================================================
