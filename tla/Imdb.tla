-------------------------------- MODULE Imdb --------------------------------
(***************************************************************************)
(* The IMDB plugin: six tables without foreign keys, three ways to load    *)
(* them, and operations of which none is a transaction.  The tables are    *)
(* named without their prefix movies_normalized_.                          *)
(***************************************************************************)
EXTENDS SqlOperation

Tables == {"meta", "actors", "cast", "user_comments", "viewed_logs", "voting_count_history"}

---------------------------------------------------------------------------
(* Setup and Cleanup. *)

CreateTables ==
    << CreateIfNotExists("meta", {}), CreateIfNotExists("actors", {}),
       CreateIfNotExists("cast", {}), CreateIfNotExists("user_comments", {}),
       CreateIfNotExists("viewed_logs", {}), CreateIfNotExists("voting_count_history", {}) >>

(* Comments, views and votes are made of numbers, not of rows that are read. *)
loadSampleData ==
    << Fill({"actors"}, {}), Fill({"meta"}, {}), Fill({"cast"}, {}), Fill({"user_comments"}, {}),
       Fill({"viewed_logs"}, {}), Fill({"voting_count_history"}, {}) >>

(* pg_restore: it may fail with some of the rows restored. *)
loadFromDump == <<Fill(Tables, {})>>

(* A statement of the file that fails is logged, and the next one follows. *)
loadFromSQL == <<Ignored(Fill(Tables, {}))>>

(* Three of the six tables are counted. *)
SchemaExists(db) == \A t \in {"meta", "actors", "viewed_logs"} : db[t] # "absent"

(* One script for each mode of loading. *)
Setup(db) ==
    {(IF SchemaExists(db) THEN <<>> ELSE CreateTables) \o <<StopIfFilled("meta")>> \o load :
         load \in {loadSampleData, loadFromDump, loadFromSQL}}

Cleanup ==
    << DropIfExists("voting_count_history"), DropIfExists("viewed_logs"),
       DropIfExists("user_comments"), DropIfExists("cast"), DropIfExists("actors"),
       DropIfExists("meta") >>

---------------------------------------------------------------------------
(* Reads. *)

testIndexedTitleSearch == One(Read({"meta"}))
testIndexedRatingSearch == One(Read({"meta"}))
testCompositeIndexSearch == One(Read({"meta"}))
(* It returns nil whatever the error is. *)
testUniqueIndexSearch == One(Ignored(Read({"meta"})))
testGINIndexSearch == One(Read({"meta"}))
testFullTableScan == One(Read({"meta"}))
testSimpleJoin == One(Read({"actors", "cast"}))
testWindowFunctionRanking == One(Read({"meta"}))
testCTERecursiveAnalysis == One(Read({"meta"}))
testComplexCTEAnalysis == One(Read({"cast", "meta", "user_comments", "viewed_logs"}))
testAdvancedWindowFunctions == One(Read({"meta"}))
testActorCareerAnalysisCTE == One(Read({"actors", "cast", "meta"}))

(* A movie that does not exist is an error. *)
getMovieDetails == {<<MustFind({"meta"}, {"meta"}), Read({"cast", "actors"})>>}

getActorMovies == One(Read({"cast", "meta"}))
getMovieComments == One(Read({"user_comments"}))

---------------------------------------------------------------------------
(* Writes. *)

insertNewComment == One(Insert("user_comments", {}))
updateMovieRating == One(Update("meta"))
insertNewMovie == One(Insert("meta", {}))
updateCommentHelpfulness == One(Update("user_comments"))
insertNewActor == One(Insert("actors", {}))
addMovieActor == One(Insert("cast", {}))
logMovieView == One(Insert("viewed_logs", {}))

---------------------------------------------------------------------------
(* The operations each mode draws from. *)

executeReadOperation ==
    UNION {testIndexedTitleSearch, testIndexedRatingSearch, testCompositeIndexSearch,
           testUniqueIndexSearch, testGINIndexSearch, testFullTableScan, testSimpleJoin,
           getMovieDetails, getActorMovies, getMovieComments, testWindowFunctionRanking,
           testCTERecursiveAnalysis, testComplexCTEAnalysis, testAdvancedWindowFunctions,
           testActorCareerAnalysisCTE}

executeWriteOperation ==
    UNION {insertNewComment, updateMovieRating, insertNewMovie, updateCommentHelpfulness,
           insertNewActor, addMovieActor, logMovieView}

Modes == {"read", "write", "mixed"}

(* What a worker draws from. *)
Operations(mode) ==
    CASE mode = "read" -> executeReadOperation
      [] mode = "write" -> executeWriteOperation
      [] mode = "mixed" -> executeReadOperation \cup executeWriteOperation
=============================================================================
