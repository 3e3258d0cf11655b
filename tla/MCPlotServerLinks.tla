------------------------- MODULE MCPlotServerLinks -------------------------
EXTENDS PlotServerLinks
Twins == [p \in {"north", "south"} |-> "Plot 1"]
TwoPlots == <<"north", "south">>
OldUpload(over) == <<[client |-> Nobody, name |-> "Plot 1", over |-> over]>>
\* Nothing, or an old upload of the first plot, or the row of some other land.
OneOrphanOrNone == {<<>>} \cup {OldUpload(over) : over \in {{}, {"north"}}}
=============================================================================
