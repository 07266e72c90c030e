-------------------------------- MODULE MCData --------------------------------
(***************************************************************************)
(* What a deployment stores and what it answers from it, for TLC: the tabs *)
(* that open one dashboard; two datasets of one export, uploaded, mapped   *)
(* and deleted by two people; the insights of a run, reworded and put back *)
(* while two pages show them; the files that are uploaded, each read as a  *)
(* table, profiled and judged; and the exports of a business, each given   *)
(* its roles, remembered and drawn.  Explored one at a time.               *)
(***************************************************************************)
EXTENDS AsyncCache, Sequences, TLC

CONSTANTS r1, r2, r3, r4,
          Dataset, First, Header, Detected, Asked, Editor, MaxRequests, ca, cb, cc,
          Insight, Writer, Browser, MaxWrites, MaxReads, Start, i1

MCRequest == {r1, r2, r3, r4}

-------------------------------------------------------------------------------
(* The files a small deployment is sent: two or three columns of five
   cells, so that one is past the sample of four. *)

CONSTANT Blank    \* an empty cell

One(d) == <<"one", 1, d>>           \* a date with one reading
Two(first, second) == <<"two", first, second>>
Num(digits, marks, tail) == <<"num", digits, marks, tail>>
Whole(n) == Num(n, "", 0)
Word(w) == <<"word", w>>

\* what a heading's words say of its column
Heading(name) == [name |-> <<name, 0>>, date |-> FALSE, strong |-> FALSE, weak |-> FALSE,
                  money |-> FALSE, weight |-> FALSE, id |-> FALSE, year |-> FALSE, period |-> Blank]
DateHead == [Heading("date") EXCEPT !.date = TRUE]
Revenue == [Heading("revenue") EXCEPT !.strong = TRUE, !.money = TRUE]
Units == [Heading("units") EXCEPT !.weak = TRUE, !.weight = TRUE]
Plain == Heading("x")

Col(head, cells) == [head |-> head, cells |-> cells]
Csv(columns) == [suffix |-> "csv", size |-> 1, ragged |-> 0, columns |-> columns]

Days == <<One(1), One(2), One(3), One(4), One(5)>>
Figures == <<Whole(7), Whole(8), Whole(9), Whole(5), Whole(6)>>

\* every column of dates that read two ways, or one, or not at all, and past the sample one more that agrees
\* with them or does not
DateCells == {One(5), Two(1, 2), Two(2, 1), Two(13, 1), Two(1, 13), Word("a")}
DateFiles == {Csv(<<Col(DateHead, Append(d, past)), Col(Revenue, Figures)>>) :
                d \in [1..4 -> DateCells], past \in {Two(1, 2), Two(13, 1), Word("a")}}

SomeDates ==
    {Days, <<One(1), One(2), Blank, One(2), One(9)>>, <<Blank, Blank, Blank, Word("a"), One(2)>>,
     <<Two(1, 1), Two(2, 1), Two(3, 1), Two(4, 1), Two(5, 1)>>,
     <<Two(1, 1), Two(1, 2), Two(1, 3), Two(1, 4), Word("a")>>,
     <<Two(1, 2), Two(2, 3), Two(3, 4), Two(4, 5), Two(5, 6)>>,
     <<Two(1, 2), Two(2, 3), One(4), One(5), Two(5, 6)>>,
     <<Whole(45000), Whole(45001), Whole(45002), Whole(45003), Whole(45004)>>,
     <<Word("a"), Word("b"), Word("a"), One(1), One(2)>>,
     <<Blank, Blank, Blank, Blank, Blank>>}
SomeFigures ==
    {Figures,
     <<Num(1234, ",", 3), Num(1235, ",", 3), Num(1236, ",", 3), Num(125, ".", 1), Blank>>,
     <<Num(123456, ".,", 2), Num(1234, ",", 2), Num(1236, ".", 3), Num(125, ",", 1), Word("a")>>,
     <<Num(123456, ",.", 2), Num(123456, ",.", 2), Num(1234, ",", 3), Blank, Whole(1)>>,
     <<Num(15, ",", 1), Num(1234, ",", 3), Num(1235, ",", 3), Num(1236, ",", 3), Num(1239, ",", 3)>>,
     <<Num(1234567, ",", 3), Num(1235567, ",", 3), Num(1236567, ",", 3), Num(1234, ",", 3), Word("a")>>,
     <<Num(1234, ".", 3), Num(1235, ".", 3), Num(1236, ".", 3), Num(1237, ".", 3), Blank>>,
     <<Num(1234, ".", 3), Num(1235, ".", 3), Num(1236, ".", 3), Num(1237, ".", 3), Word("a")>>,
     <<Whole(1), Whole(1), Whole(1), Whole(1), Blank>>,
     <<Whole(1), Word("a"), Word("b"), Whole(1), Blank>>}
TwoColumns == {Csv(<<Col(DateHead, d), Col(head, f)>>) : d \in SomeDates, f \in SomeFigures, head \in {Revenue, Plain}}

Year == [Heading("year") EXCEPT !.year = TRUE]
Years == <<Whole(2019), Whole(2020), Whole(2021), Whole(2022), Word("a")>>
Others ==
    {Col(Year, Years), Col(Year, [Years EXCEPT ![5] = Whole(2023)]), Col(Plain, Years), Col(Heading("region"), <<Word("a"), Word("a"), Blank, Word("b"), Word("b")>>),
     Col(Heading("region"), <<Word("a"), Blank, Blank, Word("b"), Blank>>),
     Col(Heading("note"), <<Word("a"), Word("b"), Word("c"), Word("d"), Blank>>),
     Col([Heading("id") EXCEPT !.id = TRUE], Figures), Col(Units, Figures),
     Col([DateHead EXCEPT !.name = <<"date", 1>>], Days)}
ThreeColumns ==
    {[Csv(<<o, Col(DateHead, d), Col(head, f)>>) EXCEPT !.suffix = suffix] :
        o \in Others, d \in {Days, <<One(1), One(1), Blank, One(2), One(3)>>},
        f \in {Figures, <<Whole(1), Blank, Blank, Whole(1), Blank>>},
        head \in {Revenue, Units}, suffix \in {"csv", "xlsx"}}

Across(i) == Col([Heading("p") EXCEPT !.name = <<"p", i>>, !.period = <<"date", 1, i>>], <<Whole(i), Whole(5), Blank>>)
Region == Col(Heading("region"), <<Word("a"), Word("b"), Word("c")>>)
Odd ==
    {[Csv(<<Col(DateHead, Days), Col(Revenue, Figures)>>) EXCEPT !.suffix = suffix, !.size = size, !.ragged = ragged] :
        suffix \in {"xls", "csv"}, size \in 0..3, ragged \in 0..1}
    \cup {Csv(<<Col(DateHead, Days), Col(Revenue, Figures), Col(Revenue, Figures)>>),
          Csv(<<Col(Revenue, Figures), Col(Revenue, Figures), Col([Revenue EXCEPT !.name = <<"revenue", 1>>], Figures)>>),
          Csv(<<Col(DateHead, <<>>), Col(Revenue, <<>>)>>), Csv(<<Col(DateHead, Days)>>), Csv(<<Col(Revenue, Figures)>>),
          Csv(<<Region, Across(1), Across(2), Across(3)>>), Csv(<<Across(1), Across(2), Across(3), Across(5)>>),
          Csv(<<Across(1), Across(2)>>)}

MCFiles == DateFiles \cup TwoColumns \cup ThreeColumns \cup Odd

-------------------------------------------------------------------------------
(* The exports of a small business: figures by shop and article, some with
   an area, some twice a day, and the same again with a column more, of
   another type, or under other headings. *)

CONSTANT Vacant    \* an empty cell

Described(name, dtype, kind, score) ==
    [name |-> name, dtype |-> dtype, kind |-> kind, score |-> score,
     hint |-> FALSE, id |-> FALSE, rate |-> FALSE]
Day == Described("day", "Date", "date", 90)
Sold == Described("units", "Int64", "number", 70)
Cost == [Described("price", "Float64", "number", 65) EXCEPT !.rate = TRUE]
Shop == [Described("shop", "Utf8", "category", 0) EXCEPT !.hint = TRUE]
Item == Described("item", "Utf8", "category", 0)
Area == Described("area", "Utf8", "category", 0)

Exported(columns, rows) ==
    [raw |-> [i \in DOMAIN columns |-> columns[i].name], columns |-> columns, rows |-> rows, frequency |-> "daily"]

\* texts are numbered from eleven on
Left == <<11>>
Right == <<12>>
Daily == <<<<0, 5>>, <<1, 7>>, <<2, 5>>, <<4, 9>>>>
Crossed == <<<<0, Left, Left, 1>>, <<0, Left, Right, 2>>, <<0, Right, Left, 3>>, <<0, Right, Right, 4>>,
             <<1, Left, Left, 5>>, <<1, Left, Right, 6>>, <<1, Right, Left, 7>>, <<1, Right, Right, 8>>>>
\* shops lie in areas
Nested == <<<<0, Left, <<21>>, 1>>, <<0, Left, <<22>>, 2>>, <<0, Right, <<23>>, 3>>,
            <<3, Left, <<21>>, 5>>, <<3, Left, <<22>>, 6>>, <<3, Right, <<23>>, 2>>>>
\* two rows alike, one without a shop, one without a figure
Twice == <<<<0, Left, 1>>, <<0, Left, 2>>, <<1, Vacant, 3>>, <<1, Right, Vacant>>, <<2, Left, 4>>, <<2, Right, 1>>>>
\* what is between the parts of a value is what is put between two values
Parted == <<<<0, <<11, 12>>, Left, 1>>, <<0, Left, <<12, 11>>, 2>>, <<1, <<11, 12>>, <<12, 11>>, 3>>, <<1, Left, Left, 4>>>>
Priced == <<<<0, 5, 2>>, <<1, 7, 3>>, <<Vacant, 5, 2>>, <<4, 9, 2>>>>

Articles == Exported(<<Day, Shop, Item, Sold>>, Crossed)
MCTables ==
    {Exported(<<Day, Sold>>, Daily), Articles,
     [Articles EXCEPT !.columns[4].dtype = "Float64"],
     Exported(<<Day, Area, Shop, Sold>>, Nested),
     Exported(<<Day, Shop, Sold>>, Twice),
     Exported(<<Day, Shop, [Sold EXCEPT !.dtype = "Float64", !.score = 30]>>, Twice),
     Exported(<<Day, Shop, Item, Sold>>, Parted),
     [Exported(<<Day, Sold, Cost>>, Priced) EXCEPT !.frequency = Vacant],
     Exported(<<Day, Sold, [Sold EXCEPT !.name = "Units"]>>, Priced),
     [Exported(<<Day, Sold>>, Daily) EXCEPT !.raw = <<"column_1", "column_2">>],
     Exported(<<Shop, [Sold EXCEPT !.id = TRUE]>>, <<<<Left, 1>>, <<Right, 2>>, <<Left, 3>>>>)}
MCNorm == [day |-> "day", units |-> "units", Units |-> "units", price |-> "price", shop |-> "shop", item |-> "item",
           area |-> "area", column_1 |-> "column_1", column_2 |-> "column_2"]
MCPlace == [Units |-> 1, area |-> 2, column_1 |-> 3, column_2 |-> 4, day |-> 5, item |-> 6, price |-> 7, shop |-> 8,
            units |-> 9]

Wanted(date, target, keys, covariates) ==
    [date |-> date, target |-> target, keys |-> keys, covariates |-> covariates, frequency |-> Vacant, aggregation |-> Vacant]
MCRequests ==
    {Wanted("day", "units", <<"shop">>, <<>>), Wanted("day", "units", <<"shop", "item">>, <<>>),
     Wanted("units", "price", <<"day">>, <<>>), Wanted("day", "Units", <<"units">>, <<>>),
     Wanted("day", "units", <<>>, <<"units">>),
     [Wanted("day", "units", <<"area", "shop">>, <<>>) EXCEPT !.frequency = "monthly", !.aggregation = "last"],
     [Wanted("day", "units", <<"shop">>, <<"price">>) EXCEPT !.aggregation = "mean"],
     Wanted("column_1", "column_2", <<>>, <<>>)}

-------------------------------------------------------------------------------
(* The parts. *)

\* the profiler gives each role to one column, and nobody may ask for one column as both
MCInferred == ca :> "time" @@ cb :> "target" @@ cc :> "measure"
MCAsked == {[time |-> ca, target |-> cb], [time |-> cb, target |-> ca], [time |-> ca, target |-> cc]}

VARIABLES part,
          row, files, memory, request, requests, begun, kept, crossed, tidy,
          words, events, write, writes, clock, version, cache, page, read, reads, overlapped, behind,
          file, order, raw, table, profile, verdict, outcome,
          mappings, stored, proposal, frame, accepted, accepts
mapping == <<mappings, stored, proposal, frame, accepted, accepts>>
reading == <<file, order, raw, table, profile, verdict, outcome>>
insights == <<words, events, write, writes, clock, version, cache, page, read, reads, overlapped, behind>>
datasets == <<row, files, memory, request, requests, begun, kept, crossed, tidy>>

D == INSTANCE Datasets WITH
    Request <- Editor, None <- Blank, Column <- Header, Inferred <- Detected

ASSUME DatasetsAssumption ==
    /\ First \in Dataset /\ MaxRequests \in Nat
    /\ Detected \in [Header -> {"time", "target", "measure"}]
    /\ \E c, e \in Header : /\ \A o \in Header : Detected[o] = "time" <=> o = c
                            /\ \A o \in Header : Detected[o] = "target" <=> o = e
    /\ Asked \subseteq D!Mapping /\ \A a \in Asked : a.time # a.target
    /\ Blank \notin D!Row \cup D!Mapping \cup D!Pending

I == INSTANCE Insights WITH row <- words

\* all as they were computed, and one of them reworded before
AsComputed == [text |-> 0, rewritten |-> FALSE, updated |-> 0]
MCStart == {[i \in Insight |-> AsComputed],
            [i \in Insight |-> IF i = i1 THEN [text |-> MaxWrites + 1, rewritten |-> TRUE, updated |-> 0] ELSE AsComputed]}

ASSUME InsightsAssumption ==
    /\ IsFiniteSet(Writer) /\ Insight # {}
    /\ MaxWrites \in Nat /\ MaxReads \in Nat

R == INSTANCE Reading WITH
        None <- Blank, Files <- MCFiles, Orders <- {"auto", "day", "month"}, MaxSize <- 2, Sample <- 4,
        Serial <- 45000..45004, MaxCategory <- 3, MaxDimension <- 2, Required <- 4

P == INSTANCE Mapping WITH
        None <- Blank, Null <- Blank, Files <- MCTables, Norm <- MCNorm, Place <- MCPlace, Missing <- 10,
        KeyCandidates <- 2, KeyWidth <- 2, MaxConsidered <- 2, Requests <- MCRequests, MaxAccepts <- 2,
        memory <- mappings, file <- stored

MCInit ==
    /\ part \in {"cache", "datasets", "insights", "reading", "mapping"}
    /\ Init /\ D!Init /\ P!Init
    /\ IF part = "insights" THEN I!Init /\ words \in Start
       ELSE words = [i \in Insight |-> AsComputed] /\ I!Untouched
    /\ IF part = "reading" THEN R!Init /\ (file \in DateFiles => order = "auto")
       ELSE file = Csv(<<Across(1), Across(2)>>) /\ order = "auto" /\ R!Unread
MCNext == \/ part = "cache" /\ Next /\ UNCHANGED <<part, datasets, insights, reading, mapping>>
          \/ part = "datasets" /\ D!Next /\ UNCHANGED <<part, vars, insights, reading, mapping>>
          \/ part = "insights" /\ I!Next /\ UNCHANGED <<part, vars, datasets, reading, mapping>>
          \/ part = "reading" /\ R!Next /\ UNCHANGED <<part, vars, datasets, insights, mapping>>
          \/ part = "mapping" /\ P!Next /\ UNCHANGED <<part, vars, datasets, insights, reading>>
MCSpec == /\ MCInit /\ [][MCNext]_<<part, vars, datasets, insights, reading, mapping>>
          /\ \A r \in Request : WF_vars(part = "cache" /\ Resume(r))

\* see Datasets: a mapping has a time column and another as its target, each with its role; a dataset has
\* its table, and one that is gone has left nothing
DatasetsHold == part = "datasets" => D!TypeOK /\ D!MappingHolds /\ D!FilesFollowRows

\* see Insights: a page shows what was committed when it asked, and says whose words they are
InsightsAreHonest == part = "insights" => I!TypeOK /\ I!InsightsAreHonest

\* see Reading: what is lost of a file is a lesser part and counted, of its dates also told; the order of
\* dates of one layout is told when it was guessed; a number with both separators settles what they mean;
\* and what is let through is what was judged
ReadingIsHonest ==
    part = "reading" => R!TypeOK /\ R!LossIsCounted /\ R!OrderIsTold /\ R!BothIsProof /\ R!VerdictHolds

\* see Mapping: keys nobody was asked about combine no rows, what was accepted comes back, a proposal can
\* be drawn and loses nothing, and only tables that are alike share a mapping
MappingIsSound ==
    part = "mapping" => P!TypeOK /\ P!KeysKeepRowsApart /\ P!AcceptedComesBack /\ P!ProposalCanBeDrawn /\ P!OnlyAlike
===============================================================================
