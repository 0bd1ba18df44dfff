--------------------------- MODULE MCFixedCalendar --------------------------
EXTENDS FixedCalendar

MCMonths == <<31, 28, 31, 30, 31>>
=============================================================================
