--------------------------- MODULE AqiCalculator ---------------------------
(***************************************************************************)
(* services/common/aqi_calculator.py: the AQI of a PM2.5 concentration and *)
(* the category of an AQI.  A concentration is an integer number of        *)
(* hundredths of ug/m3, so that the truncation to one decimal is visible.  *)
(* The other pollutants and units have no AQI.                             *)
(***************************************************************************)
EXTENDS Integers

\* None: the value has no AQI.
NoAqi == -1

\* PM25_BREAKPOINTS, the concentrations in tenths.
Breakpoint(low, high, indexLow, indexHigh) ==
    [low |-> low, high |-> high, indexLow |-> indexLow, indexHigh |-> indexHigh]

PM25Breakpoints == <<
    Breakpoint(0,    90,   0,   50),
    Breakpoint(91,   354,  51,  100),
    Breakpoint(355,  554,  101, 150),
    Breakpoint(555,  1254, 151, 200),
    Breakpoint(1255, 2254, 201, 300),
    Breakpoint(2255, 3254, 301, 500) >>

Rows     == 1..6
Hazardous == 6

\* PM25_EXTENDED_MAX_UG_M3
ExtendedMax == 10000

\* Mutation: rounded to one decimal.
RoundedTenths(value) == (value + 5) \div 10

\* _truncate_decimal: ROUND_DOWN is towards zero.
Tenths(value) == IF value >= 0 THEN value \div 10 ELSE -((-value) \div 10)

InRow(i, c) == PM25Breakpoints[i].low <= c /\ c <= PM25Breakpoints[i].high

\* _pm25_breakpoint_for: above the table, the last row.
BreakpointFor(c) == IF \E i \in Rows : InRow(i, c) THEN CHOOSE i \in Rows : InRow(i, c)
                    ELSE Hazardous

\* _linear_aqi: ROUND_HALF_UP to an integer.
LinearAqi(c, b) ==
    LET width == b.high - b.low
    IN  b.indexLow +
        (2 * (b.indexHigh - b.indexLow) * (c - b.low) + width) \div (2 * width)

\* calculate_aqi
CalculateAqi(value) ==
    LET c == Tenths(value)
    IN  IF c < 0 \/ c > ExtendedMax THEN NoAqi
        ELSE LinearAqi(c, PM25Breakpoints[BreakpointFor(c)])

InCategory(i, aqi) == PM25Breakpoints[i].indexLow <= aqi /\ aqi <= PM25Breakpoints[i].indexHigh

\* aqi_category, the number of the row; 0 for None.
AqiCategory(aqi) ==
    IF \E i \in Rows : InCategory(i, aqi) THEN CHOOSE i \in Rows : InCategory(i, aqi)
    ELSE IF aqi > PM25Breakpoints[Hazardous].indexHigh THEN Hazardous ELSE 0
=============================================================================
