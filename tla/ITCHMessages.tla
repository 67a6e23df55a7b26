---------------------------- MODULE ITCHMessages ----------------------------
(***************************************************************************)
(* The messages of the NASDAQ ITCH protocol and their decoders.  A struct   *)
(* is the sequence of its members as declared, each with the bytes it takes *)
(* in a message.  A decoder accepts one size and reads members one after    *)
(* the other, each where the one read before it ended.  A number is kept as *)
(* the bytes it is read from, most significant first.                       *)
(***************************************************************************)
EXTENDS Integers, SequencesExt

Chars(name, n) == <<name, n>>
Char(name)     == Chars(name, 1)
UInt16(name)   == <<name, 2>>
UInt32(name)   == <<name, 4>>
UInt64(name)   == <<name, 8>>

-----------------------------------------------------------------------------
(* The structs. *)

Header == <<Char("Type"), UInt16("StockLocate"), UInt16("TrackingNumber"), <<"Timestamp", 6>> >>

SystemEventMessage == Header \o <<Char("EventCode")>>

StockDirectoryMessage == Header \o
    <<Chars("Stock", 8), Char("MarketCategory"), Char("FinancialStatusIndicator"),
      UInt32("RoundLotSize"), Char("RoundLotsOnly"), Char("IssueClassification"),
      Chars("IssueSubType", 2), Char("Authenticity"), Char("ShortSaleThresholdIndicator"),
      Char("IPOFlag"), Char("LULDReferencePriceTier"), Char("ETPFlag"),
      UInt32("ETPLeverageFactor"), Char("InverseIndicator")>>

StockTradingActionMessage ==
    Header \o <<Chars("Stock", 8), Char("TradingState"), Char("Reserved"), Char("Reason")>>

RegSHOMessage == Header \o <<Chars("Stock", 8), Char("RegSHOAction")>>

MarketParticipantPositionMessage == Header \o
    <<Chars("MPID", 4), Chars("Stock", 8), Char("PrimaryMarketMaker"), Char("MarketMakerMode"),
      Char("MarketParticipantState")>>

MWCBDeclineMessage == Header \o <<UInt64("Level1"), UInt64("Level2"), UInt64("Level3")>>

MWCBStatusMessage == Header \o <<Char("BreachedLevel")>>

IPOQuotingMessage == Header \o
    <<Chars("Stock", 8), UInt32("IPOReleaseTime"), Char("IPOReleaseQualifier"), UInt32("IPOPrice")>>

AddOrderMessage == Header \o
    <<UInt64("OrderReferenceNumber"), Char("BuySellIndicator"), UInt32("Shares"),
      Chars("Stock", 8), UInt32("Price")>>

AddOrderMPIDMessage == AddOrderMessage \o <<Char("Attribution")>>

OrderExecutedMessage == Header \o
    <<UInt64("OrderReferenceNumber"), UInt32("ExecutedShares"), UInt64("MatchNumber")>>

OrderExecutedWithPriceMessage ==
    OrderExecutedMessage \o <<Char("Printable"), UInt32("ExecutionPrice")>>

OrderCancelMessage == Header \o <<UInt64("OrderReferenceNumber"), UInt32("CanceledShares")>>

OrderDeleteMessage == Header \o <<UInt64("OrderReferenceNumber")>>

OrderReplaceMessage == Header \o
    <<UInt64("OriginalOrderReferenceNumber"), UInt64("NewOrderReferenceNumber"),
      UInt32("Shares"), UInt32("Price")>>

TradeMessage == AddOrderMessage \o <<UInt64("MatchNumber")>>

CrossTradeMessage == Header \o
    <<UInt64("Shares"), Chars("Stock", 8), UInt32("CrossPrice"), UInt64("MatchNumber"),
      Char("CrossType")>>

BrokenTradeMessage == Header \o <<UInt64("MatchNumber")>>

NOIIMessage == Header \o
    <<UInt64("PairedShares"), UInt64("ImbalanceShares"), Char("ImbalanceDirection"),
      Chars("Stock", 8), UInt32("FarPrice"), UInt32("NearPrice"),
      UInt32("CurrentReferencePrice"), Char("CrossType"), Char("PriceVariationIndicator")>>

RPIIMessage == Header \o <<Chars("Stock", 8), Char("InterestFlag")>>

LULDAuctionCollarMessage == Header \o
    <<Chars("Stock", 8), UInt32("AuctionCollarReferencePrice"),
      UInt32("UpperAuctionCollarPrice"), UInt32("LowerAuctionCollarPrice"),
      UInt32("AuctionCollarExtension")>>

UnknownMessage == <<Char("Type")>>

-----------------------------------------------------------------------------
(* Reading. *)

\* The bytes before the i-th of a sequence of members.
Offset(members, i) == MapThenSumSet(LAMBDA j : members[j][2], 1 .. (i - 1))

Member(struct, name) == SelectInSeq(struct, LAMBDA member : member[1] = name)

\* ReadBigEndian and ReadString take all bytes of a member.  ReadTimestamp moves on by
\* six bytes and reads the first three of them.
Read(member, at, bytes) ==
    SubSeq(bytes, at + 1, at + IF member[1] = "Timestamp" THEN 3 ELSE member[2])

NoMessage == [struct |-> << >>, fields |-> << >>]

\* The message that a decoder for one size passes on, reading the members in the order
\* of reads; NoMessage if it refuses the size.
Decode(size, struct, reads, bytes) ==
    LET members == [i \in DOMAIN reads |-> struct[Member(struct, reads[i])]]
    IN  IF Len(bytes) # size THEN NoMessage
        ELSE [struct |-> struct,
              fields |-> [name \in ToSet(reads) |->
                             LET i == SelectLastInSeq(reads, LAMBDA r : r = name)
                             IN  Read(members[i], Offset(members, i), bytes)]]

ReadHeader == <<"Type", "StockLocate", "TrackingNumber", "Timestamp">>

ProcessSystemEventMessage(bytes) ==
    Decode(12, SystemEventMessage, ReadHeader \o <<"EventCode">>, bytes)

ProcessStockDirectoryMessage(bytes) ==
    Decode(39, StockDirectoryMessage,
           ReadHeader \o <<"Stock", "MarketCategory", "FinancialStatusIndicator", "RoundLotSize",
             "RoundLotsOnly", "IssueClassification", "IssueSubType", "Authenticity",
             "ShortSaleThresholdIndicator", "IPOFlag", "LULDReferencePriceTier", "ETPFlag",
             "ETPLeverageFactor", "InverseIndicator">>, bytes)

ProcessStockTradingActionMessage(bytes) ==
    Decode(25, StockTradingActionMessage,
           ReadHeader \o <<"Stock", "TradingState", "Reserved", "Reason">>, bytes)

ProcessRegSHOMessage(bytes) ==
    Decode(20, RegSHOMessage, ReadHeader \o <<"Stock", "RegSHOAction">>, bytes)

\* Mutant: the participant and the stock are read in the other order.
ProcessMarketParticipantPositionSwapped(bytes) ==
    Decode(26, MarketParticipantPositionMessage,
           ReadHeader \o <<"Stock", "MPID", "PrimaryMarketMaker", "MarketMakerMode",
             "MarketParticipantState">>, bytes)

ProcessMarketParticipantPositionMessage(bytes) ==
    Decode(26, MarketParticipantPositionMessage,
           ReadHeader \o <<"MPID", "Stock", "PrimaryMarketMaker", "MarketMakerMode",
             "MarketParticipantState">>, bytes)

ProcessMWCBDeclineMessage(bytes) ==
    Decode(35, MWCBDeclineMessage, ReadHeader \o <<"Level1", "Level2", "Level3">>, bytes)

ProcessMWCBStatusMessage(bytes) ==
    Decode(12, MWCBStatusMessage, ReadHeader \o <<"BreachedLevel">>, bytes)

ProcessIPOQuotingMessage(bytes) ==
    Decode(28, IPOQuotingMessage,
           ReadHeader \o <<"Stock", "IPOReleaseTime", "IPOReleaseQualifier", "IPOPrice">>, bytes)

ReadAddOrder ==
    ReadHeader \o <<"OrderReferenceNumber", "BuySellIndicator", "Shares", "Stock", "Price">>

ProcessAddOrderMessage(bytes) == Decode(36, AddOrderMessage, ReadAddOrder, bytes)

\* The attribution takes four bytes of the message; its member holds the first.
ProcessAddOrderMPIDMessage(bytes) ==
    Decode(40, AddOrderMPIDMessage, ReadAddOrder \o <<"Attribution">>, bytes)

ReadExecuted == ReadHeader \o <<"OrderReferenceNumber", "ExecutedShares", "MatchNumber">>

ProcessOrderExecutedMessage(bytes) == Decode(31, OrderExecutedMessage, ReadExecuted, bytes)

ProcessOrderExecutedWithPriceMessage(bytes) ==
    Decode(36, OrderExecutedWithPriceMessage,
           ReadExecuted \o <<"Printable", "ExecutionPrice">>, bytes)

ProcessOrderCancelMessage(bytes) ==
    Decode(23, OrderCancelMessage,
           ReadHeader \o <<"OrderReferenceNumber", "CanceledShares">>, bytes)

ProcessOrderDeleteMessage(bytes) ==
    Decode(19, OrderDeleteMessage, ReadHeader \o <<"OrderReferenceNumber">>, bytes)

ProcessOrderReplaceMessage(bytes) ==
    Decode(35, OrderReplaceMessage,
           ReadHeader \o <<"OriginalOrderReferenceNumber", "NewOrderReferenceNumber", "Shares",
             "Price">>, bytes)

ProcessTradeMessage(bytes) == Decode(44, TradeMessage, ReadAddOrder \o <<"MatchNumber">>, bytes)

ProcessCrossTradeMessage(bytes) ==
    Decode(40, CrossTradeMessage,
           ReadHeader \o <<"Shares", "Stock", "CrossPrice", "MatchNumber", "CrossType">>, bytes)

ProcessBrokenTradeMessage(bytes) ==
    Decode(19, BrokenTradeMessage, ReadHeader \o <<"MatchNumber">>, bytes)

ProcessNOIIMessage(bytes) ==
    Decode(50, NOIIMessage,
           ReadHeader \o <<"PairedShares", "ImbalanceShares", "ImbalanceDirection", "Stock",
             "FarPrice", "NearPrice", "CurrentReferencePrice", "CrossType",
             "PriceVariationIndicator">>, bytes)

ProcessRPIIMessage(bytes) == Decode(20, RPIIMessage, ReadHeader \o <<"Stock", "InterestFlag">>, bytes)

ProcessLULDAuctionCollarMessage(bytes) ==
    Decode(35, LULDAuctionCollarMessage,
           ReadHeader \o <<"Stock", "AuctionCollarReferencePrice", "UpperAuctionCollarPrice",
             "LowerAuctionCollarPrice", "AuctionCollarExtension">>, bytes)

ProcessUnknownMessage(bytes) == Decode(Len(bytes), UnknownMessage, <<"Type">>, bytes)

\* The decoder of a message is chosen by its first byte.
ProcessMessage(bytes) ==
    LET type == IF bytes = << >> THEN 0 ELSE Head(bytes)
    IN  CASE bytes = << >> -> NoMessage
          [] type = 83 -> ProcessSystemEventMessage(bytes)                  \* S
          [] type = 82 -> ProcessStockDirectoryMessage(bytes)               \* R
          [] type = 72 -> ProcessStockTradingActionMessage(bytes)           \* H
          [] type = 89 -> ProcessRegSHOMessage(bytes)                       \* Y
          [] type = 76 -> ProcessMarketParticipantPositionMessage(bytes)    \* L
          [] type = 86 -> ProcessMWCBDeclineMessage(bytes)                  \* V
          [] type = 87 -> ProcessMWCBStatusMessage(bytes)                   \* W
          [] type = 75 -> ProcessIPOQuotingMessage(bytes)                   \* K
          [] type = 65 -> ProcessAddOrderMessage(bytes)                     \* A
          [] type = 70 -> ProcessAddOrderMPIDMessage(bytes)                 \* F
          [] type = 69 -> ProcessOrderExecutedMessage(bytes)                \* E
          [] type = 67 -> ProcessOrderExecutedWithPriceMessage(bytes)       \* C
          [] type = 88 -> ProcessOrderCancelMessage(bytes)                  \* X
          [] type = 68 -> ProcessOrderDeleteMessage(bytes)                  \* D
          [] type = 85 -> ProcessOrderReplaceMessage(bytes)                 \* U
          [] type = 80 -> ProcessTradeMessage(bytes)                        \* P
          [] type = 81 -> ProcessCrossTradeMessage(bytes)                   \* Q
          [] type = 66 -> ProcessBrokenTradeMessage(bytes)                  \* B
          [] type = 73 -> ProcessNOIIMessage(bytes)                         \* I
          [] type = 78 -> ProcessRPIIMessage(bytes)                         \* N
          [] type = 74 -> ProcessLULDAuctionCollarMessage(bytes)            \* J
          [] OTHER     -> ProcessUnknownMessage(bytes)
=============================================================================
